---- MODULE Spec2Model ----
(***************************************************************************)
(* Model of home_optimizer's routing core (src/src/main.py):               *)
(*   - CachedRoutingClient over a MongoCache store and a wrapped provider, *)
(*   - geocode_locations / load_and_process_routing_data,                  *)
(*   - calculate_routes_and_scores (group phase, individual phase, totals).*)
(*                                                                         *)
(* Python dicts are records; "k in d" is "k \in DOMAIN d".  Minutes are    *)
(* fixed-point integers in thousandths of a minute, so that round(x, 2)    *)
(* is a real conversion (to a multiple of 10) and not the identity.        *)
(***************************************************************************)
EXTENDS Integers, Sequences, FiniteSets, TLC

VARIABLES
    pc,                     \* position of the run
    demo_mode,              \* os.getenv("DEMO_MODE") == "true"
    costing,                \* run-level costing argument
    loaded,                 \* history: the data files as load_json gave them
    destinations,           \* list of destination dicts
    origins,                \* list of origin dicts
    oi, gi, di,             \* loop positions: origin, group, destination
    shortest_time,          \* group phase local
    best_route,             \* group phase local
    best_routes_by_origin,  \* origin name -> best routes, in group order
    total_score,            \* per-origin accumulator
    valid_routes,           \* per-origin accumulator
    origin_routes,          \* per-origin list of records
    route_data,             \* output list of records
    origin_scores,          \* output list of origin summaries
    calls,                  \* history: provider calls made by the run
    legs,                   \* history: what each leg query of a pair gave
    member_time,            \* history: time_min computed for a pair
    cache_store,            \* MongoCache collection: key -> document
    provider_returns,       \* history: successful provider returns per key
    store_failed,           \* history: a store get/set has raised
    call_count,             \* number of decorator calls made
    last_call,              \* history: the latest decorator call and outcome
    key_log,                \* history: fingerprints computed, with their inputs
    returned_on_miss,       \* history: key -> what the writing miss returned
    callers,                \* concurrent callers of get_route: position, locals
    writes,                 \* history: values passed to the store, in order
    env,                    \* process environment at start-up
    routing_client,         \* what setup_routing_client gave
    demo_log,               \* history: DemoRoutingClient.get_route calls
    entry,                  \* the entry point that is running
    received,               \* what the entry point got from its data load
    response,               \* what the entry point gave back
    rendered,               \* history: rendering functions called
    simple_route_data,      \* SimpleHTMLDashboard: output list of records
    simple_origin_scores,   \* SimpleHTMLDashboard: output list of summaries
    clock,                  \* datetime.now() as _convert_to_timestamp reads it
    conversion              \* history: the latest _convert_to_timestamp call

input_vars == <<demo_mode, costing, loaded>>

engine_vars == <<pc, input_vars, destinations, origins, oi, gi, di,
                 shortest_time, best_route, best_routes_by_origin,
                 total_score, valid_routes, origin_routes, route_data,
                 origin_scores, calls, legs, member_time>>

cache_vars == <<cache_store, provider_returns, store_failed, call_count,
                last_call, key_log, returned_on_miss, callers, writes>>

app_vars == <<entry, received, response, rendered, simple_route_data,
              simple_origin_scores, clock, conversion>>

setup_vars == <<env, routing_client, demo_log, app_vars>>

vars == <<engine_vars, cache_vars, setup_vars>>

----------------------------------------------------------------------------
(* Python helpers                                                          *)

\* dict.get(key, default)
Get(d, k, default) == IF k \in DOMAIN d THEN d[k] ELSE default

\* Python None where a string is expected
None == "None"

\* Python None where a dict or a list is expected
NoneObject == [none |-> TRUE]

\* float('inf') of the group phase: larger than every round-trip time
Infinity == 999999999

\* round(x, 2) on thousandths: nearest multiple of 10, ties to even
Round2(x) ==
    LET q == x \div 10
        r == x % 10
    IN  IF r < 5 THEN q * 10
        ELSE IF r > 5 THEN (q + 1) * 10
        ELSE IF q % 2 = 0 THEN q * 10 ELSE (q + 1) * 10

\* round(n / d, 2) on thousandths, d a positive count
Round2Div(n, d) ==
    LET q == n \div (10 * d)
        r == n % (10 * d)
    IN  IF 2 * r < 10 * d THEN q * 10
        ELSE IF 2 * r > 10 * d THEN (q + 1) * 10
        ELSE IF q % 2 = 0 THEN q * 10 ELSE (q + 1) * 10

RECURSIVE SumSeq(_)
SumSeq(s) == IF s = << >> THEN 0 ELSE Head(s) + SumSeq(Tail(s))

----------------------------------------------------------------------------
(* Provider responses                                                      *)

\* the provider call raised (RouteError, timeout, HTTP error)
Raised == [exception |-> "RouteError"]

\* the from-leg query was never issued (the to-leg raised)
NotCalled == [not_called |-> TRUE]

\* {} : the service answered but found no route
EmptyResult == [empty |-> TRUE]

\* a response with "trip" but no "summary"
NoSummary == [trip |-> [locations |-> 2]]

\* a summary without a "time"
NoTime == [trip |-> [summary |-> [distance |-> 7]]]

Route(t) == [trip |-> [summary |-> [time |-> t]]]

TrafficRoute(t, tt) ==
    [trip |-> [summary |-> [time |-> t, traffic_time |-> tt]]]

\* what get_route may give, in thousandths of a minute
RouteResponses ==
    { Raised, EmptyResult, NoSummary, NoTime,
      Route(5004), TrafficRoute(3001, 8003) }

IsRaise(r) == "exception" \in DOMAIN r

HasTrip(r) == "trip" \in DOMAIN r

HasSummary(r) == HasTrip(r) /\ "summary" \in DOMAIN r.trip

\* the leg gave a result with a usable time
Usable(r) == HasSummary(r) /\ "time" \in DOMAIN r.trip.summary

NoLeg == [no_leg |-> TRUE]

\* what the history keeps of a leg response
LegView(r) == IF Usable(r) THEN r.trip.summary ELSE NoLeg

----------------------------------------------------------------------------
(* Destinations: partition into groups and individual destinations         *)

\* "if group:" -- None and the empty string are falsy
Truthy(g) == g # None /\ g # ""

Range(s) == { s[i] : i \in 1..Len(s) }

\* keys of grouped_destinations, in insertion order
RECURSIVE GroupNames(_)
GroupNames(dests) ==
    IF dests = << >> THEN << >>
    ELSE LET prev == GroupNames(SubSeq(dests, 1, Len(dests) - 1))
             g    == Get(dests[Len(dests)], "group", None)
         IN  IF Truthy(g) /\ g \notin Range(prev) THEN Append(prev, g)
             ELSE prev

\* grouped_destinations[g], in input order
GroupMembers(dests, g) ==
    SelectSeq(dests, LAMBDA d : Get(d, "group", None) = g)

\* individual_destinations, in input order
IndividualDestinations(dests) ==
    SelectSeq(dests, LAMBDA d : ~Truthy(Get(d, "group", None)))

----------------------------------------------------------------------------
(* One (origin, destination) pair: the two leg queries and the round trip  *)

\* the try block with .get("time", 0): a missing time counts as zero
LegResultTimeDefault(to, from) ==
    IF IsRaise(to) \/ IsRaise(from) THEN [status |-> "exception"]
    ELSE IF ~(HasSummary(to) /\ HasTrip(from) /\ HasSummary(to))
        THEN [status |-> "no_summary"]
    ELSE IF ~HasSummary(from) THEN [status |-> "exception"]
    ELSE LET st == to.trip.summary
             sf == from.trip.summary
         IN  [status |-> "ok",
              time_min |->
                 IF "traffic_time" \in DOMAIN st /\ "traffic_time" \in DOMAIN sf
                 THEN st.traffic_time + sf.traffic_time
                 ELSE Get(st, "time", 0) + Get(sf, "time", 0)]

\* the try block up to time_min, the same in both phases
LegResult(to, from) ==
    IF IsRaise(to) \/ IsRaise(from) THEN [status |-> "exception"]
    \* the second conjunct tests "summary" in response_to["trip"] again
    ELSE IF ~(HasSummary(to) /\ HasTrip(from) /\ HasSummary(to))
        THEN [status |-> "no_summary"]
    \* response_from["trip"]["summary"] : KeyError
    ELSE IF ~HasSummary(from) THEN [status |-> "exception"]
    \* None + x : TypeError
    ELSE IF ~Usable(to) \/ ~Usable(from) THEN [status |-> "exception"]
    ELSE LET st == to.trip.summary
             sf == from.trip.summary
         IN  [status |-> "ok",
              time_min |->
                 IF "traffic_time" \in DOMAIN st /\ "traffic_time" \in DOMAIN sf
                 THEN st.traffic_time + sf.traffic_time
                 ELSE st.time + sf.time]

\* "pedestrian" if transport_mode == "walking" else costing
RouteCosting(dest, run_costing) ==
    IF Get(dest, "transport_mode", "auto") = "walking" THEN "pedestrian"
    ELSE run_costing

\* the weight applied to a group: that of the last member
GroupWeightOfLast(group_destinations) ==
    Get(group_destinations[Len(group_destinations)], "weight", 1)

\* group_destinations[0].get("weight", 1.0)
GroupWeight(group_destinations) == Get(group_destinations[1], "weight", 1)

\* a route also replaces the best one when it takes as long
IsShorterOrEqual(time_min, shortest) == time_min <= shortest

\* a route replaces the best one whenever it is valid
IsShorterOrLater(time_min, shortest) == TRUE

\* time_min is not None and time_min < shortest_time
IsShorter(time_min, shortest) == time_min < shortest

\* best_route of the group phase
GroupRecord(origin, dest, group_name, group_destinations, time_min, to) ==
    LET base == [origin |-> origin.name,
                 destination |-> dest.name,
                 group |-> group_name,
                 travel_time |-> Round2(time_min),
                 weight |-> GroupWeight(group_destinations),
                 weighted_time |->
                     Round2(time_min * GroupWeight(group_destinations)),
                 departure_time_to |-> Get(dest, "departure_time_to", None),
                 departure_time_from |-> Get(dest, "departure_time_from", None),
                 day_of_week |-> Get(dest, "day_of_week", None),
                 origin_coords |-> origin.coords,
                 dest_coords |-> dest.coords,
                 transport_mode |-> Get(dest, "transport_mode", "auto"),
                 is_shortest_in_group |-> TRUE]
        st == to.trip.summary
    IN  IF "traffic_time" \in DOMAIN st
        THEN base @@ [traffic_time |-> Round2(st.traffic_time),
                      normal_time |-> Round2(st.time)]
        ELSE base

\* route_info of the individual phase; to and from both carry traffic_time
\* whenever to does (the caller has handled the KeyError)
IndividualRecord(origin, dest, time_min, to, from) ==
    LET w == Get(dest, "weight", 1)
        base == [origin |-> origin.name,
                 destination |-> dest.name,
                 group |-> Get(dest, "group", "individual"),
                 travel_time |-> Round2(time_min),
                 weight |-> w,
                 weighted_time |-> Round2(time_min * w),
                 departure_time_to |-> Get(dest, "departure_time_to", None),
                 departure_time_from |-> Get(dest, "departure_time_from", None),
                 day_of_week |-> Get(dest, "day_of_week", None),
                 origin_coords |-> origin.coords,
                 dest_coords |-> dest.coords,
                 transport_mode |-> Get(dest, "transport_mode", "auto")]
        st == to.trip.summary
        sf == from.trip.summary
    IN  IF "traffic_time" \in DOMAIN st
        THEN base @@ [traffic_time |->
                          Round2(st.traffic_time) + Round2(sf.traffic_time),
                      normal_time |-> Round2(st.time) + Round2(sf.time)]
        ELSE base

\* best_route = None
NoRoute == NoneObject

\* no handler around a pair: an exception leaves the function
AfterPairUncaught(status, next_pc) ==
    IF status = "exception" THEN "aborted" ELSE next_pc

\* try / except Exception around a pair: the failure is logged and the
\* loop goes on
AfterPair(status, next_pc) == next_pc

----------------------------------------------------------------------------
(* calculate_routes_and_scores                                             *)

PairKey(origin, dest) == <<origin.name, dest.name>>

\* where the second loop starts for an origin
OriginLoopPc(dests) ==
    IF IndividualDestinations(dests) # << >> THEN "individual" ELSE "totals"

\* where the function starts: the first loop does work only with groups
EntryPc(orgs, dests) ==
    IF orgs = << >> THEN "done"
    ELSE IF GroupNames(dests) # << >> THEN "group"
    ELSE OriginLoopPc(dests)

\* a leg pair as the provider may answer it: the from-leg is queried
\* only when the to-leg query returned
LegPairs ==
    { <<to, from>> \in RouteResponses \X (RouteResponses \cup {NotCalled}) :
        (from = NotCalled) <=> IsRaise(to) }

\* the calls of a pair when the destination is geocoded on first use
RouteCallsLazyGeocode(origin, dest, run_costing, from) ==
    LET req(dep) == [method |-> "get_route",
                     origin |-> origin.coords,
                     destination |-> dest.coords,
                     costing |-> RouteCosting(dest, run_costing),
                     departure_time |-> dep,
                     day_of_week |-> Get(dest, "day_of_week", None)]
        req_to   == req(Get(dest, "departure_time_to", None))
        req_from == req(Get(dest, "departure_time_from", None))
        geo      == [method |-> "geocode", address |-> dest.name]
    IN  IF from = NotCalled THEN <<geo, req_to>>
        ELSE <<geo, req_to, req_from>>

\* the calls of a pair when the from-leg runs from the destination back
RouteCallsReturnReversed(origin, dest, run_costing, from) ==
    LET req_to   == [method |-> "get_route",
                     origin |-> origin.coords,
                     destination |-> dest.coords,
                     costing |-> RouteCosting(dest, run_costing),
                     departure_time |-> Get(dest, "departure_time_to", None),
                     day_of_week |-> Get(dest, "day_of_week", None)]
        req_from == [method |-> "get_route",
                     origin |-> dest.coords,
                     destination |-> origin.coords,
                     costing |-> RouteCosting(dest, run_costing),
                     departure_time |->
                         Get(dest, "departure_time_from", None),
                     day_of_week |-> Get(dest, "day_of_week", None)]
    IN  IF from = NotCalled THEN <<req_to>> ELSE <<req_to, req_from>>

\* the calls of a pair when a to-leg query that raised is tried again
RouteCallsWithRetry(origin, dest, run_costing, from) ==
    LET req(dep) == [method |-> "get_route",
                     origin |-> origin.coords,
                     destination |-> dest.coords,
                     costing |-> RouteCosting(dest, run_costing),
                     departure_time |-> dep,
                     day_of_week |-> Get(dest, "day_of_week", None)]
        req_to   == req(Get(dest, "departure_time_to", None))
        req_from == req(Get(dest, "departure_time_from", None))
    IN  IF from = NotCalled THEN <<req_to, req_to, req_to>>
        ELSE <<req_to, req_from>>

\* the get_route calls of one pair: to-leg, then from-leg unless the
\* to-leg raised
RouteCalls(origin, dest, run_costing, from) ==
    LET req(dep) == [method |-> "get_route",
                     origin |-> origin.coords,
                     destination |-> dest.coords,
                     costing |-> RouteCosting(dest, run_costing),
                     departure_time |-> dep,
                     day_of_week |-> Get(dest, "day_of_week", None)]
        req_to   == req(Get(dest, "departure_time_to", None))
        req_from == req(Get(dest, "departure_time_from", None))
    IN  IF from = NotCalled THEN <<req_to>> ELSE <<req_to, req_from>>

\* group phase, one member of one group for one origin
GroupRoute ==
    /\ pc = "group"
    /\ LET origin  == origins[oi]
           names   == GroupNames(destinations)
           members == GroupMembers(destinations, names[gi])
           dest    == members[di]
       IN  \E lp \in LegPairs :
             LET to     == lp[1]
                 from   == lp[2]
                 res    == LegResult(to, from)
                 better == /\ res.status = "ok"
                           /\ IsShorter(res.time_min, shortest_time)
             IN  /\ shortest_time' =
                        IF better THEN res.time_min ELSE shortest_time
                 /\ best_route' =
                        IF better
                        THEN GroupRecord(origin, dest, names[gi], members,
                                         res.time_min, to)
                        ELSE best_route
                 /\ calls' = calls \o RouteCalls(origin, dest, costing, from)
                 /\ legs' = (PairKey(origin, dest) :>
                                <<LegView(to), LegView(from), IsRaise(to)>>)
                                @@ legs
                 /\ member_time' =
                        IF res.status = "ok"
                        THEN (PairKey(origin, dest) :> res.time_min)
                                 @@ member_time
                        ELSE member_time
                 /\ IF di < Len(members)
                    THEN di' = di + 1 /\ pc' = AfterPair(res.status, "group")
                    ELSE di' = di /\ pc' = AfterPair(res.status, "group_best")
    /\ UNCHANGED <<input_vars, destinations, origins, oi, gi,
                   best_routes_by_origin, total_score, valid_routes,
                   origin_routes, route_data, origin_scores, cache_vars, setup_vars>>

\* group phase, after the members of a group: keep the best route
GroupBest ==
    /\ pc = "group_best"
    /\ LET origin == origins[oi]
           names  == GroupNames(destinations)
       IN  /\ best_routes_by_origin' =
                  IF best_route # NoRoute
                  THEN [best_routes_by_origin EXCEPT
                           ![origin.name] = Append(@, best_route)]
                  ELSE best_routes_by_origin
           /\ shortest_time' = Infinity
           /\ best_route' = NoRoute
           /\ di' = 1
           /\ IF gi < Len(names)
              THEN gi' = gi + 1 /\ oi' = oi /\ pc' = "group"
              ELSE IF oi < Len(origins)
              THEN gi' = 1 /\ oi' = oi + 1 /\ pc' = "group"
              ELSE gi' = 1 /\ oi' = 1 /\ pc' = OriginLoopPc(destinations)
    /\ UNCHANGED <<input_vars, destinations, origins, total_score,
                   valid_routes, origin_routes, route_data, origin_scores,
                   calls, legs, member_time, cache_vars, setup_vars>>

\* individual phase, one destination for one origin
IndividualRoute ==
    /\ pc = "individual"
    /\ LET origin == origins[oi]
           indiv  == IndividualDestinations(destinations)
           dest   == indiv[di]
       IN  \E lp \in LegPairs :
             LET to       == lp[1]
                 from     == lp[2]
                 res      == LegResult(to, from)
                 ok       == res.status = "ok"
                 \* response_from[...]["traffic_time"] : KeyError, raised
                 \* after the totals were updated
                 keyerror == /\ ok
                             /\ "traffic_time" \in DOMAIN to.trip.summary
                             /\ "traffic_time" \notin DOMAIN from.trip.summary
                 weighted == res.time_min * Get(dest, "weight", 1)
                 info     == IndividualRecord(origin, dest, res.time_min,
                                              to, from)
             IN  /\ total_score' =
                        IF ok THEN total_score + weighted ELSE total_score
                 /\ valid_routes' =
                        IF ok THEN valid_routes + 1 ELSE valid_routes
                 /\ origin_routes' =
                        IF ok /\ ~keyerror THEN Append(origin_routes, info)
                        ELSE origin_routes
                 /\ route_data' =
                        IF ok /\ ~keyerror THEN Append(route_data, info)
                        ELSE route_data
                 /\ calls' = calls \o RouteCalls(origin, dest, costing, from)
                 /\ legs' = (PairKey(origin, dest) :>
                                <<LegView(to), LegView(from), IsRaise(to)>>)
                                @@ legs
                 /\ member_time' =
                        IF ok
                        THEN (PairKey(origin, dest) :> res.time_min)
                                 @@ member_time
                        ELSE member_time
                 /\ IF di < Len(indiv)
                    THEN di' = di + 1
                         /\ pc' = AfterPair(res.status, "individual")
                    ELSE di' = di /\ pc' = AfterPair(res.status, "totals")
    /\ UNCHANGED <<input_vars, destinations, origins, oi, gi, shortest_time,
                   best_route, best_routes_by_origin, origin_scores,
                   cache_vars, setup_vars>>

\* an origin is scored only with two or more counted routes
HasSeveralValidRoutes(valid) == valid > 1

\* if valid_routes > 0
HasValidRoutes(valid) == valid > 0

\* weighted time added to the totals for a best route
BestWeighted(best) == best.travel_time * best.weight

\* per origin, after its individual destinations: group contributions
\* and the origin's score record
OriginTotals ==
    /\ pc = "totals"
    /\ LET origin == origins[oi]
           bests  == best_routes_by_origin[origin.name]
           total  == total_score
                       + SumSeq([i \in 1..Len(bests) |-> BestWeighted(bests[i])])
           valid  == valid_routes + Len(bests)
           routes == origin_routes \o bests
       IN  /\ route_data' = route_data \o bests
           /\ origin_scores' =
                  IF HasValidRoutes(valid)
                  THEN Append(origin_scores,
                              [name |-> origin.name,
                               total_score |-> Round2(total),
                               avg_score |-> Round2Div(total, valid),
                               valid_routes |-> valid,
                               coords |-> origin.coords,
                               routes |-> routes])
                  ELSE origin_scores
           /\ total_score' = 0
           /\ valid_routes' = 0
           /\ origin_routes' = << >>
           /\ di' = 1
           /\ IF oi < Len(origins)
              THEN oi' = oi + 1 /\ pc' = OriginLoopPc(destinations)
              ELSE oi' = oi /\ pc' = "done"
    /\ UNCHANGED <<input_vars, destinations, origins, gi, shortest_time,
                   best_route, best_routes_by_origin, calls, legs,
                   member_time, cache_vars, setup_vars>>

----------------------------------------------------------------------------
(* Inputs of a scoring run                                                 *)

Origin(n, c) == [name |-> n, coords |-> c]

\* destinations.json entries, already carrying coordinates
DestWork   == [name |-> "Work", coords |-> <<10, 20>>, weight |-> 2,
               departure_time_to |-> "08:00",
               departure_time_from |-> "18:00", day_of_week |-> "Monday"]
DestPark   == [name |-> "Park", coords |-> <<11, 21>>,
               transport_mode |-> "walking"]
DestGymA   == [name |-> "GymA", coords |-> <<12, 22>>, group |-> "gym"]
DestGymB   == [name |-> "GymB", coords |-> <<13, 23>>, group |-> "gym",
               weight |-> 3]
DestMarket == [name |-> "Market", coords |-> <<14, 24>>,
               group |-> "market", weight |-> 2,
               transport_mode |-> "bicycle"]

HomeNorth == Origin("North", <<1, 1>>)
HomeSouth == Origin("South", <<2, 2>>)

\* (origins, destinations) as calculate_routes_and_scores receives them
ScoreInputs ==
    { [origins |-> <<HomeNorth, HomeSouth>>,
       destinations |-> <<DestWork, DestPark>>],
      [origins |-> <<HomeNorth, HomeSouth>>,
       destinations |-> <<DestGymA, DestGymB>>],
      [origins |-> <<HomeNorth, HomeSouth>>,
       destinations |-> <<DestGymB, DestMarket>>],
      [origins |-> <<HomeNorth>>,
       destinations |-> <<DestGymB, DestWork, DestGymA>>] }

OriginNames(orgs) == { orgs[i].name : i \in 1..Len(orgs) }

\* the decorator is not in use
CacheIdle ==
    /\ cache_store = << >>
    /\ provider_returns = << >>
    /\ store_failed = FALSE
    /\ call_count = 0
    /\ last_call = NoneObject
    /\ key_log = << >>
    /\ returned_on_miss = << >>
    /\ callers = << >>
    /\ writes = << >>

\* no dashboard entry point is running and no timestamp was asked for
AppIdle ==
    /\ entry = None
    /\ received = NoneObject
    /\ response = NoneObject
    /\ rendered = << >>
    /\ simple_route_data = << >>
    /\ simple_origin_scores = << >>
    /\ clock = NoneObject
    /\ conversion = NoneObject

\* no start-up in progress, the demo provider is not in use
SetupIdle ==
    /\ env = NoneObject
    /\ routing_client = NoneObject
    /\ demo_log = << >>
    /\ AppIdle

\* locals and outputs at the entry of calculate_routes_and_scores
ScoringEntry(orgs) ==
    /\ oi = 1 /\ gi = 1 /\ di = 1
    /\ shortest_time = Infinity
    /\ best_route = NoRoute
    /\ best_routes_by_origin = [n \in OriginNames(orgs) |-> << >>]
    /\ total_score = 0
    /\ valid_routes = 0
    /\ origin_routes = << >>
    /\ route_data = << >>
    /\ origin_scores = << >>
    /\ calls = << >>
    /\ legs = << >>
    /\ member_time = << >>

\* a call of calculate_routes_and_scores
InitScores ==
    /\ \E inp \in ScoreInputs :
          /\ origins = inp.origins
          /\ destinations = inp.destinations
          /\ loaded = inp
          /\ pc = EntryPc(inp.origins, inp.destinations)
          /\ ScoringEntry(inp.origins)
    /\ demo_mode = FALSE
    /\ costing = "auto"
    /\ CacheIdle
    /\ SetupIdle

NextScores == GroupRoute \/ GroupBest \/ IndividualRoute \/ OriginTotals

SpecScores == InitScores /\ [][NextScores]_vars

----------------------------------------------------------------------------
(* load_and_process_routing_data: geocode phase, then scoring              *)

GeocodeFailed == [exception |-> "GeocodeError"]

\* what provider.geocode may give: a coordinate, or it raises
GeocodeResponses == { GeocodeFailed, [result |-> <<30, 51>>] }

\* the sentinel of geocode_locations
SentinelCoords == <<0, 0>>

SetCoords(item, c) == [coords |-> c] @@ item

GeocodeCall(item) == [method |-> "geocode", address |-> item.name]

\* one item of a geocode loop; gives the item afterwards, the call made
\* and whether the exception left the function
GeocodeItem(item, demo, r) ==
    IF demo
    THEN \* DEMO_MODE branch: only items lacking coords, no try/except
         IF "coords" \in DOMAIN item
         THEN [item |-> item, calls |-> << >>, raised |-> FALSE]
         ELSE IF IsRaise(r)
         THEN [item |-> item, calls |-> <<GeocodeCall(item)>>,
               raised |-> TRUE]
         ELSE [item |-> SetCoords(item, r.result), calls |-> <<GeocodeCall(item)>>,
               raised |-> FALSE]
    ELSE \* geocode_locations: every item, sentinel on failure
         [item |-> SetCoords(item, IF IsRaise(r) THEN SentinelCoords
                                 ELSE r.result),
          calls |-> <<GeocodeCall(item)>>, raised |-> FALSE]

\* one destination of the geocode phase
GeocodeDestination ==
    /\ pc = "geocode_dest"
    /\ \E r \in GeocodeResponses :
         LET g == GeocodeItem(destinations[di], demo_mode, r)
         IN  /\ destinations' = [destinations EXCEPT ![di] = g.item]
             /\ calls' = calls \o g.calls
             /\ IF g.raised THEN pc' = "aborted" /\ di' = di
                ELSE IF di < Len(destinations)
                THEN pc' = "geocode_dest" /\ di' = di + 1
                ELSE pc' = "geocode_origin" /\ di' = 1
    /\ UNCHANGED <<input_vars, origins, oi, gi, shortest_time, best_route,
                   best_routes_by_origin, total_score, valid_routes,
                   origin_routes, route_data, origin_scores, legs,
                   member_time, cache_vars, setup_vars>>

\* one origin of the geocode phase; after the last one scoring starts
GeocodeOrigin ==
    /\ pc = "geocode_origin"
    /\ \E r \in GeocodeResponses :
         LET g == GeocodeItem(origins[oi], demo_mode, r)
         IN  /\ origins' = [origins EXCEPT ![oi] = g.item]
             /\ calls' = calls \o g.calls
             /\ IF g.raised THEN pc' = "aborted" /\ oi' = oi
                ELSE IF oi < Len(origins)
                THEN pc' = "geocode_origin" /\ oi' = oi + 1
                ELSE pc' = EntryPc(origins, destinations) /\ oi' = 1
    /\ UNCHANGED <<input_vars, destinations, gi, di, shortest_time,
                   best_route, best_routes_by_origin, total_score,
                   valid_routes, origin_routes, route_data, origin_scores,
                   legs, member_time, cache_vars, setup_vars>>

\* an entry of a data file that gives no coordinates
WithoutCoords(item) == [k \in DOMAIN item \ {"coords"} |-> item[k]]

\* data files as load_json returns them
RunInputs ==
    { [origins |-> <<o>>, destinations |-> <<d1, d2>>] :
        o  \in {HomeNorth, WithoutCoords(HomeNorth)},
        d1 \in {DestWork, WithoutCoords(DestWork)},
        d2 \in {DestGymB, WithoutCoords(DestGymB)} }

RunCostings == {"auto", "bicycle"}

\* a call of load_and_process_routing_data, data files loaded
InitRun ==
    /\ \E inp \in RunInputs :
          /\ origins = inp.origins
          /\ destinations = inp.destinations
          /\ loaded = inp
          /\ ScoringEntry(inp.origins)
    /\ pc = "geocode_dest"
    /\ demo_mode \in BOOLEAN
    /\ costing \in RunCostings
    /\ CacheIdle
    /\ SetupIdle

NextRun ==
    \/ GeocodeDestination \/ GeocodeOrigin
    \/ GroupRoute \/ GroupBest \/ IndividualRoute \/ OriginTotals

SpecRun == InitRun /\ [][NextRun]_vars

----------------------------------------------------------------------------
(* MongoCache and CachedRoutingClient                                      *)

\* a Python tuple / list holding a coordinate
TupleCoords(c) == [tuple |-> c]
ListCoords(c)  == [list |-> c]

\* json.dumps(value): a tuple is written as a JSON array
JsonDumps(value) ==
    IF "tuple" \in DOMAIN value THEN ListCoords(value.tuple) ELSE value

\* json.loads(text): a JSON array is read as a list
JsonLoads(text) == text

\* MongoCache.get on a reachable store: the decoded value, or None
CacheGet(store, key) ==
    IF key \in DOMAIN store THEN JsonLoads(store[key].value)
    ELSE NoneObject

\* update_one without upsert: a missing key is not inserted
CacheSetWithoutUpsert(store, key, value, metadata) ==
    IF key \in DOMAIN store
    THEN (key :> [value |-> JsonDumps(value), metadata |-> metadata])
             @@ store
    ELSE store

\* update_one that only inserts: an existing document is left alone
CacheSetInsertOnly(store, key, value, metadata) ==
    IF key \in DOMAIN store THEN store
    ELSE (key :> [value |-> JsonDumps(value), metadata |-> metadata])
             @@ store

\* MongoCache.set on a reachable store: update_one(..., upsert=True)
CacheSet(store, key, value, metadata) ==
    (key :> [value |-> JsonDumps(value), metadata |-> metadata])
        @@ store

\* **kwargs is a dict in the order the caller wrote the keywords: a
\* sequence of <<name, value>> pairs.  The names in sorted order:
KeyOrder == <<"address", "costing", "day_of_week", "departure_time">>

\* json.dumps without sort_keys: the pairs in insertion order
KeepKeyOrder(kwargs) == kwargs

\* json.dumps(..., sort_keys=True) of the kwargs dict: the pairs by name
SortKeys(kwargs) ==
    LET names == SelectSeq(KeyOrder,
                           LAMBDA n : \E p \in Range(kwargs) : p[1] = n)
    IN  [i \in 1..Len(names) |->
            CHOOSE p \in Range(kwargs) : p[1] = names[i]]

\* a key that leaves the provider's name out
GenerateKeyWithoutClient(client_name, method, args, kwargs) ==
    [method |-> method, args |-> args, kwargs |-> SortKeys(kwargs)]

\* CachedRoutingClient._generate_key: the JSON text of client_name, method,
\* args and kwargs, hashed; the digest stands for the text it is made of
GenerateKey(client_name, method, args, kwargs) ==
    [client_name |-> client_name, method |-> method,
     args |-> args, kwargs |-> SortKeys(kwargs)]

\* the keywords get_route passes to _generate_key, in the order written
GetRouteKwargs(route_costing, departure_time, day_of_week) ==
    << <<"costing", route_costing>>, <<"departure_time", departure_time>>,
       <<"day_of_week", day_of_week>> >>

\* the keyword geocode passes to _generate_key
GeocodeKwargs(address) == << <<"address", address>> >>

\* names of the wrapped providers
ClientNames == {"Valhalla", "Google"}

\* get_route requests made through the decorator
CacheRouteRequests ==
    { [origin |-> <<1, 1>>, destination |-> <<10, 20>>, costing |-> "auto",
       departure_time |-> dep, day_of_week |-> "Monday"] :
         dep \in {"08:00", "18:00"} }

CacheAddresses == {"Work"}

\* what the wrapped get_route gives
CacheRouteResponses == { Raised, EmptyResult, Route(5004) }

\* what the wrapped geocode gives: NominatimClient returns a tuple,
\* GoogleRoutingClient a list
ProviderGeocode(client_name) ==
    { GeocodeFailed,
      IF client_name = "Valhalla" THEN TupleCoords(<<30, 51>>)
      ELSE ListCoords(<<30, 51>>) }

StoreError == [exception |-> "CacheStoreError"]

\* number of decorator calls explored
MaxCalls == 4

Count(f, k) == IF k \in DOMAIN f THEN f[k] ELSE 0

\* "if cached_result:" -- an empty dict is falsy
IsHitTruthy(cached) == cached # NoneObject /\ cached # EmptyResult

\* "if cached_result is not None"
IsHit(cached) == cached # NoneObject

\* the provider call counts as answered even when it raised
ProviderAnswered(resp) == TRUE

\* the provider call returned: no exception left it
ProviderReturned(resp) == ~IsRaise(resp)

\* body shared by CachedRoutingClient.get_route and geocode: look up, on a
\* miss call the provider, write, return.  get_fails / set_fails: the
\* store raises in that operation.
CachedCall(client_name, method, key, metadata, resp, get_fails, set_fails) ==
    LET cached == CacheGet(cache_store, key)
        hit    == ~get_fails /\ IsHit(cached)
        called == ~get_fails /\ ~hit
        got    == called /\ ProviderReturned(resp)
        wrote  == got /\ ~set_fails
        outcome ==
            IF get_fails THEN StoreError
            ELSE IF hit THEN [returned |-> cached]
            ELSE IF IsRaise(resp) THEN resp
            ELSE IF set_fails THEN StoreError
            ELSE [returned |-> resp]
    IN  /\ call_count < MaxCalls
        /\ call_count' = call_count + 1
        /\ cache_store' =
               IF wrote THEN CacheSet(cache_store, key, resp, metadata)
               ELSE cache_store
        /\ provider_returns' =
               IF got
               THEN (key :> Count(provider_returns, key) + 1)
                        @@ provider_returns
               ELSE provider_returns
        /\ store_failed' = (store_failed \/ get_fails \/ (got /\ set_fails))
        /\ last_call' = [client_name |-> client_name, method |-> method,
                         key |-> key, hit |-> hit,
                         provider_called |-> called,
                         provider_result |-> IF called THEN resp ELSE NotCalled,
                         get_failed |-> get_fails,
                         set_failed |-> got /\ set_fails,
                         outcome |-> outcome]
        /\ returned_on_miss' =
               IF wrote THEN (key :> resp) @@ returned_on_miss
               ELSE returned_on_miss
        /\ UNCHANGED <<engine_vars, key_log, callers, writes, setup_vars>>

\* CachedRoutingClient.get_route
CachedGetRoute ==
    \E client_name \in ClientNames, req \in CacheRouteRequests,
       resp \in CacheRouteResponses, get_fails, set_fails \in BOOLEAN :
        LET kwargs == GetRouteKwargs(req.costing, req.departure_time,
                                     req.day_of_week)
            key == GenerateKey(client_name, "get_route",
                               <<req.origin, req.destination>>, kwargs)
            metadata == [method |-> "get_route", origin |-> req.origin,
                         destination |-> req.destination,
                         costing |-> req.costing,
                         departure_time |-> req.departure_time,
                         day_of_week |-> req.day_of_week,
                         client_name |-> client_name]
        IN  CachedCall(client_name, "get_route", key, metadata, resp,
                       get_fails, set_fails)

\* CachedRoutingClient.geocode
CachedGeocode ==
    \E client_name \in ClientNames, address \in CacheAddresses,
       get_fails, set_fails \in BOOLEAN :
      \E resp \in ProviderGeocode(client_name) :
        LET key == GenerateKey(client_name, "geocode", << >>,
                               GeocodeKwargs(address))
            metadata == [method |-> "geocode", address |-> address,
                         client_name |-> client_name]
        IN  CachedCall(client_name, "geocode", key, metadata, resp,
                       get_fails, set_fails)

\* a decorator over an empty, reachable store; no scoring run in progress
InitCache ==
    /\ CacheIdle
    /\ SetupIdle
    /\ pc = "idle"
    /\ demo_mode = FALSE
    /\ costing = "auto"
    /\ origins = << >>
    /\ destinations = << >>
    /\ loaded = [origins |-> << >>, destinations |-> << >>]
    /\ ScoringEntry(<< >>)

NextCache == CachedGetRoute \/ CachedGeocode

SpecCache == InitCache /\ [][NextCache]_vars

----------------------------------------------------------------------------
(* Fingerprints: _generate_key and the way get_route reaches it            *)

\* all orders in which the pairs of a sequence can be written
Orderings(pairs) ==
    LET n == Len(pairs)
    IN  { [i \in 1..n |-> pairs[f[i]]] :
            f \in { g \in [1..n -> 1..n] :
                      \A i, j \in 1..n : g[i] = g[j] => i = j } }

\* parameters of get_route after self, and their defaults
GetRouteParams ==
    <<"origin", "destination", "costing", "departure_time", "day_of_week">>

GetRouteDefaults ==
    [costing |-> "auto", departure_time |-> None, day_of_week |-> None]

\* Python's binding of a call get_route(*args, **kwargs) to one parameter
BindParam(call, i) ==
    LET n == GetRouteParams[i]
    IN  IF i <= Len(call.args) THEN call.args[i]
        ELSE IF \E p \in Range(call.kwargs) : p[1] = n
        THEN (CHOOSE p \in Range(call.kwargs) : p[1] = n)[2]
        ELSE GetRouteDefaults[n]

\* the key get_route computes for a call as the caller wrote it
GetRouteKey(client_name, call) ==
    GenerateKey(client_name, "get_route",
                <<BindParam(call, 1), BindParam(call, 2)>>,
                GetRouteKwargs(BindParam(call, 3), BindParam(call, 4),
                               BindParam(call, 5)))

\* requests whose key is computed; the second leaves departure_time at None
KeyRequests ==
    { [origin |-> <<1, 1>>, destination |-> <<10, 20>>, costing |-> "auto",
       departure_time |-> dep, day_of_week |-> "Monday"] :
         dep \in {"08:00", None} }

\* the optional arguments of a request, as keywords
RequestKwargs(req) ==
    GetRouteKwargs(req.costing, req.departure_time, req.day_of_week)

\* ways a caller can write get_route for a request: keywords in any order,
\* all positional, or arguments equal to their default left out
CallForms(req) ==
    { [args |-> <<req.origin, req.destination>>, kwargs |-> kw] :
         kw \in Orderings(RequestKwargs(req)) }
    \cup { [args |-> <<req.origin, req.destination, req.costing,
                      req.departure_time, req.day_of_week>>,
            kwargs |-> << >>] }
    \cup { [args |-> <<req.origin, req.destination>>,
            kwargs |-> SelectSeq(RequestKwargs(req),
                                 LAMBDA p : p[2] # GetRouteDefaults[p[1]])] }

\* direct uses of _generate_key: method, positional and keyword arguments
DirectKeyCalls ==
    UNION { { [method |-> "get_route",
                args |-> <<req.origin, req.destination>>, kwargs |-> kw] :
                 kw \in Orderings(RequestKwargs(req)) } :
            req \in KeyRequests }
    \cup { [method |-> "geocode", args |-> << >>,
            kwargs |-> GeocodeKwargs("Work")] }

\* number of fingerprints computed in a behaviour
MaxKeyCalls == 2

\* _generate_key(method, *args, **kwargs) on a decorator
GenerateKeyCall ==
    /\ pc = "key"
    /\ Len(key_log) < MaxKeyCalls
    /\ \E client_name \in ClientNames, c \in DirectKeyCalls :
          key_log' = Append(key_log,
              [via |-> "_generate_key", client_name |-> client_name,
               method |-> c.method, args |-> c.args,
               kwargs |-> Range(c.kwargs), written |-> c.kwargs,
               key |-> GenerateKey(client_name, c.method, c.args, c.kwargs)])
    /\ UNCHANGED <<engine_vars, cache_store, provider_returns, store_failed,
                   call_count, last_call, returned_on_miss, callers, writes,
                   setup_vars>>

\* the first line of CachedRoutingClient.get_route, for a call as written
GetRouteKeyCall ==
    /\ pc = "key"
    /\ Len(key_log) < MaxKeyCalls
    /\ \E client_name \in ClientNames, req \in KeyRequests :
         \E call \in CallForms(req) :
            key_log' = Append(key_log,
                [via |-> "get_route", client_name |-> client_name,
                 request |-> req, call |-> call,
                 key |-> GetRouteKey(client_name, call)])
    /\ UNCHANGED <<engine_vars, cache_store, provider_returns, store_failed,
                   call_count, last_call, returned_on_miss, callers, writes,
                   setup_vars>>

InitKey ==
    /\ CacheIdle
    /\ SetupIdle
    /\ pc = "key"
    /\ demo_mode = FALSE
    /\ costing = "auto"
    /\ origins = << >>
    /\ destinations = << >>
    /\ loaded = [origins |-> << >>, destinations |-> << >>]
    /\ ScoringEntry(<< >>)

NextKey == GenerateKeyCall \/ GetRouteKeyCall

SpecKey == InitKey /\ [][NextKey]_vars

----------------------------------------------------------------------------
(* Two concurrent callers of CachedRoutingClient.get_route.  Each store    *)
(* operation (find_one, update_one) is one step on a reachable store.      *)

CallerNames == {"a", "b"}

\* what the wrapped get_route gives a caller of the race
RaceResponses == { Raised, EmptyResult, Route(5004), TrafficRoute(3001, 8003) }

\* the key and the metadata of a caller's request
RaceKey(c) ==
    GenerateKey(callers[c].client_name, "get_route",
                <<callers[c].request.origin, callers[c].request.destination>>,
                RequestKwargs(callers[c].request))

RaceMetadata(c) ==
    [method |-> "get_route", client_name |-> callers[c].client_name]
        @@ callers[c].request

\* cached_result = self.cache.get(key); a hit returns at once
RaceLookup(c) ==
    /\ callers[c].pc = "get"
    /\ LET cached == CacheGet(cache_store, RaceKey(c))
       IN  callers' =
               IF cached # NoneObject
               THEN [callers EXCEPT ![c].pc = "returned",
                                    ![c].outcome = [returned |-> cached]]
               ELSE [callers EXCEPT ![c].pc = "fetch"]
    /\ UNCHANGED <<engine_vars, cache_store, provider_returns, store_failed,
                   call_count, last_call, key_log, returned_on_miss, writes,
                   setup_vars>>

\* result = self.routing_client.get_route(...)
RaceFetch(c) ==
    /\ callers[c].pc = "fetch"
    /\ \E resp \in RaceResponses :
          /\ callers' =
                 IF IsRaise(resp)
                 THEN [callers EXCEPT ![c].pc = "raised",
                                      ![c].outcome = resp]
                 ELSE [callers EXCEPT ![c].pc = "set", ![c].result = resp]
          /\ provider_returns' =
                 IF IsRaise(resp) THEN provider_returns
                 ELSE (RaceKey(c) :> Count(provider_returns, RaceKey(c)) + 1)
                          @@ provider_returns
    /\ UNCHANGED <<engine_vars, cache_store, store_failed, call_count,
                   last_call, key_log, returned_on_miss, writes, setup_vars>>

\* self.cache.set(key, result, metadata); return result
RaceStore(c) ==
    /\ callers[c].pc = "set"
    /\ cache_store' = CacheSet(cache_store, RaceKey(c),
                               callers[c].result, RaceMetadata(c))
    /\ writes' = Append(writes, callers[c].result)
    /\ callers' = [callers EXCEPT
                      ![c].pc = "returned",
                      ![c].outcome = [returned |-> callers[c].result]]
    /\ UNCHANGED <<engine_vars, provider_returns, store_failed, call_count,
                   last_call, key_log, returned_on_miss, setup_vars>>

\* both callers are about to issue the same request; the store is empty
InitRace ==
    /\ cache_store = << >>
    /\ provider_returns = << >>
    /\ store_failed = FALSE
    /\ call_count = 0
    /\ last_call = NoneObject
    /\ key_log = << >>
    /\ returned_on_miss = << >>
    /\ writes = << >>
    /\ \E client_name \in ClientNames, req \in CacheRouteRequests :
          callers = [c \in CallerNames |->
                        [pc |-> "get", client_name |-> client_name,
                         request |-> req, result |-> NoneObject,
                         outcome |-> NoneObject]]
    /\ SetupIdle
    /\ pc = "race"
    /\ demo_mode = FALSE
    /\ costing = "auto"
    /\ origins = << >>
    /\ destinations = << >>
    /\ loaded = [origins |-> << >>, destinations |-> << >>]
    /\ ScoringEntry(<< >>)

NextRace ==
    \E c \in CallerNames : RaceLookup(c) \/ RaceFetch(c) \/ RaceStore(c)

SpecRace == InitRace /\ [][NextRace]_vars

----------------------------------------------------------------------------
(* DemoRoutingClient.get_route (demo.py)                                   *)

\* coordinates of the demo data, in units of 0.0001 degree
DemoNorth    == <<-300200, -512000>>
DemoDowntown == <<-300346, -512177>>
DemoMall     == <<-300277, -512287>>

\* the haversine distance of the demo pairs, in metres
HaversineMetres(origin, destination) ==
    IF destination = DemoDowntown THEN 2354 ELSE 2893

\* speed_map.get(costing, 40), km/h
DemoSpeed(route_costing) ==
    CASE route_costing = "auto"          -> 40
      [] route_costing = "bicycle"       -> 15
      [] route_costing = "pedestrian"    -> 5
      [] route_costing = "bus"           -> 25
      [] route_costing = "motor_scooter" -> 35
      [] route_costing = "truck"         -> 30
      [] OTHER                           -> 40

\* int(departure_time.split(':')[0])
HourOf(departure_time) ==
    CASE departure_time = "08:00" -> 8
      [] departure_time = "12:00" -> 12
      [] departure_time = "18:00" -> 18

\* day_of_week.lower() in [monday .. friday]
IsWeekday(day_of_week) ==
    day_of_week \in {"Monday", "monday", "Tuesday", "Wednesday", "Thursday",
                     "Friday"}

\* traffic_factor, in tenths
TrafficFactor(departure_time, day_of_week) ==
    IF /\ departure_time # None /\ day_of_week # None
       /\ IsWeekday(day_of_week)
       /\ \/ (7 <= HourOf(departure_time) /\ HourOf(departure_time) <= 9)
          \/ (17 <= HourOf(departure_time) /\ HourOf(departure_time) <= 19)
    THEN 13 ELSE 10

\* values of random.random(), in thousandths
RandomSamples == {0, 500, 999}

\* time_minutes *= (0.8 + random.random() * 0.4)
Jitter(time_minutes, r) == (time_minutes * (800 + (r * 400) \div 1000)) \div 1000

\* the dict get_route returns; minutes in thousandths, r the random draw
DemoRoute(req, r) ==
    LET metres == HaversineMetres(req.origin, req.destination)
        base   == (metres * 60) \div DemoSpeed(req.costing)
        time_minutes == Jitter(base, r)
        factor == TrafficFactor(req.departure_time, req.day_of_week)
    IN  [trip |-> [summary |->
            [time |-> time_minutes,
             distance |-> metres,
             traffic_time |-> (time_minutes * factor) \div 10,
             traffic_impact_percent |-> (factor - 10) * 10]]]

DemoRequests ==
    { [origin |-> DemoNorth, destination |-> d, costing |-> c,
       departure_time |-> dep, day_of_week |-> "Monday"] :
         d \in {DemoDowntown, DemoMall}, c \in {"auto", "bicycle"},
         dep \in {"08:00", "12:00"} }

\* number of get_route calls on the demo provider in a behaviour
MaxDemoCalls == 2

\* DemoRoutingClient.get_route
DemoGetRoute ==
    /\ pc = "demo"
    /\ Len(demo_log) < MaxDemoCalls
    /\ \E req \in DemoRequests, r \in RandomSamples :
          demo_log' = Append(demo_log,
                             [request |-> req, result |-> DemoRoute(req, r)])
    /\ UNCHANGED <<engine_vars, cache_vars, env, routing_client, app_vars>>

InitDemo ==
    /\ CacheIdle
    /\ SetupIdle
    /\ pc = "demo"
    /\ demo_mode = TRUE
    /\ costing = "auto"
    /\ origins = << >>
    /\ destinations = << >>
    /\ loaded = [origins |-> << >>, destinations |-> << >>]
    /\ ScoringEntry(<< >>)

NextDemo == DemoGetRoute

SpecDemo == InitDemo /\ [][NextDemo]_vars

----------------------------------------------------------------------------
(* setup_routing_client                                                    *)

\* an environment variable that is not set
Unset == "<unset>"

\* str.lower() on the values used
Lower(value) == IF value = "TRUE" THEN "true" ELSE value

\* os.getenv(name, "false").lower() == "true"
Flag(value) == Lower(IF value = Unset THEN "false" ELSE value) = "true"

\* the process at start-up: environment variables, whether the MongoDB
\* server answers, and whether the directory of demo.py is on sys.path
\* (it is for app.py and test_refactoring.py, it is not when src/main.py
\* or src/simple_dashboard.py is the script)
Environments ==
    [DEMO_MODE : {Unset, "true", "TRUE", "false"},
     USE_GOOGLE : {Unset, "true", "false"},
     GOOGLE_API_KEY : {Unset, "", "key"},
     mongo_reachable : BOOLEAN,
     demo_on_path : BOOLEAN]

\* "if not GOOGLE_API_KEY"
NoApiKey(e) == e.GOOGLE_API_KEY \in {Unset, ""}

\* a provider as returned: its name, whether it is wrapped in the cache
\* decorator, and whether MongoCache(...) was attempted
Returned(provider, cached, cache_tried) ==
    [provider |-> provider, cached |-> cached, cache_tried |-> cache_tried]

\* the outcome of setup_routing_client in an environment
SetupOutcome(e) ==
    IF Flag(e.DEMO_MODE)
    THEN IF e.demo_on_path
         THEN Returned("Demo (Mock Data)", FALSE, FALSE)
         ELSE [exception |-> "ModuleNotFoundError"]
    ELSE IF Flag(e.USE_GOOGLE) /\ NoApiKey(e)
    THEN [exception |-> "ValueError"]
    ELSE LET provider == IF Flag(e.USE_GOOGLE) THEN "Google" ELSE "Valhalla"
         IN  Returned(provider, e.mongo_reachable, TRUE)

\* setup_routing_client()
SetupRoutingClient ==
    /\ pc = "setup"
    /\ routing_client' = SetupOutcome(env)
    /\ pc' = IF IsRaise(SetupOutcome(env)) THEN "raised" ELSE "returned"
    /\ UNCHANGED <<input_vars, destinations, origins, oi, gi, di,
                   shortest_time, best_route, best_routes_by_origin,
                   total_score, valid_routes, origin_routes, route_data,
                   origin_scores, calls, legs, member_time, cache_vars,
                   env, demo_log, app_vars>>

InitSetup ==
    /\ CacheIdle
    /\ env \in Environments
    /\ routing_client = NoneObject
    /\ demo_log = << >>
    /\ AppIdle
    /\ pc = "setup"
    /\ demo_mode = Flag(env.DEMO_MODE)
    /\ costing = "auto"
    /\ origins = << >>
    /\ destinations = << >>
    /\ loaded = [origins |-> << >>, destinations |-> << >>]
    /\ ScoringEntry(<< >>)

NextSetup == SetupRoutingClient

SpecSetup == InitSetup /\ [][NextSetup]_vars

----------------------------------------------------------------------------
(* The leg queries of the pairs of one origin, made through                *)
(* CachedRoutingClient over a reachable store (SpecLegs)                   *)

\* a destination whose two departure times are the same
DestCafe == [name |-> "Cafe", coords |-> <<15, 25>>,
             departure_time_to |-> "12:00",
             departure_time_from |-> "12:00", day_of_week |-> "Saturday"]

\* destination lists of the runs: departure times that differ, that are
\* equal and that are absent
LegInputs ==
    { <<DestWork, DestCafe, DestPark>>,
      <<DestPark, DestWork>>,
      <<DestCafe, DestGymA, DestWork>> }

\* the to-leg and the from-leg request of a pair's try block
LegRequests(origin, dest, run_costing) ==
    RouteCalls(origin, dest, run_costing, EmptyResult)

\* key = self._generate_key("get_route", origin, destination, costing=...,
\*                          departure_time=..., day_of_week=...)
LegKey(req) ==
    GenerateKey(routing_client.provider, "get_route",
                <<req.origin, req.destination>>,
                GetRouteKwargs(req.costing, req.departure_time,
                               req.day_of_week))

\* CachedRoutingClient.get_route for the request; resp is what the wrapped
\* provider gives if it is asked
CachedLeg(req, resp) ==
    LET key      == LegKey(req)
        metadata == [method |-> "get_route", origin |-> req.origin,
                     destination |-> req.destination,
                     costing |-> req.costing,
                     departure_time |-> req.departure_time,
                     day_of_week |-> req.day_of_week,
                     client_name |-> routing_client.provider]
        cached   == CacheGet(cache_store, key)
        hit      == IsHit(cached)
        got      == ~hit /\ ProviderReturned(resp)
    IN  /\ calls' = Append(calls, req)
        /\ call_count' = call_count + 1
        /\ cache_store' =
               IF got THEN CacheSet(cache_store, key, resp, metadata)
               ELSE cache_store
        /\ provider_returns' =
               IF got
               THEN (key :> Count(provider_returns, key) + 1)
                        @@ provider_returns
               ELSE provider_returns
        /\ returned_on_miss' =
               IF got THEN (key :> resp) @@ returned_on_miss
               ELSE returned_on_miss
        /\ last_call' = [client_name |-> routing_client.provider,
                         method |-> "get_route",
                         key |-> key, hit |-> hit,
                         provider_called |-> ~hit,
                         provider_result |-> IF hit THEN NotCalled ELSE resp,
                         get_failed |-> FALSE,
                         set_failed |-> FALSE,
                         outcome |-> IF hit THEN [returned |-> cached]
                                     ELSE IF IsRaise(resp) THEN resp
                                     ELSE [returned |-> resp]]

\* the pair is over: on to the next destination, or the end
NextPair ==
    IF di < Len(destinations)
    THEN pc' = "leg_to" /\ di' = di + 1
    ELSE pc' = "done" /\ di' = di

\* response_to = routing_client.get_route(..., departure_time_to, ...)
CachedLegTo ==
    /\ pc = "leg_to"
    /\ \E resp \in CacheRouteResponses :
         LET origin == origins[oi]
             dest   == destinations[di]
             req    == LegRequests(origin, dest, costing)[1]
             raised == ~IsHit(CacheGet(cache_store, LegKey(req)))
                           /\ IsRaise(resp)
         IN  /\ CachedLeg(req, resp)
             /\ IF raised
                THEN /\ legs' = (PairKey(origin, dest) :>
                                    <<NoLeg, NoLeg, TRUE>>) @@ legs
                     /\ NextPair
                ELSE /\ legs' = legs
                     /\ pc' = "leg_from" /\ di' = di
    /\ UNCHANGED <<input_vars, origins, destinations, oi, gi, shortest_time,
                   best_route, best_routes_by_origin, total_score,
                   valid_routes, origin_routes, route_data, origin_scores,
                   member_time, store_failed, key_log, callers, writes,
                   setup_vars>>

\* response_from = routing_client.get_route(..., departure_time_from, ...)
CachedLegFrom ==
    /\ pc = "leg_from"
    /\ \E resp \in CacheRouteResponses :
         LET origin == origins[oi]
             dest   == destinations[di]
             req    == LegRequests(origin, dest, costing)[2]
             to     == last_call.outcome
         IN  /\ CachedLeg(req, resp)
             /\ legs' = (PairKey(origin, dest) :>
                            <<LegView(to.returned),
                              IF "returned" \in DOMAIN last_call'.outcome
                              THEN LegView(last_call'.outcome.returned)
                              ELSE NoLeg,
                              FALSE>>) @@ legs
             /\ NextPair
    /\ UNCHANGED <<input_vars, origins, destinations, oi, gi, shortest_time,
                   best_route, best_routes_by_origin, total_score,
                   valid_routes, origin_routes, route_data, origin_scores,
                   member_time, store_failed, key_log, callers, writes,
                   setup_vars>>

\* the pairs of one origin are about to be queried through a decorator
\* whose store is empty
InitLegs ==
    /\ CacheIdle
    /\ env = NoneObject
    /\ demo_log = << >>
    /\ AppIdle
    /\ routing_client \in { Returned(c, TRUE, TRUE) : c \in ClientNames }
    /\ pc = "leg_to"
    /\ demo_mode = FALSE
    /\ costing \in RunCostings
    /\ origins \in { <<HomeNorth>>, <<HomeSouth>> }
    /\ destinations \in LegInputs
    /\ loaded = [origins |-> origins, destinations |-> destinations]
    /\ ScoringEntry(origins)

NextLegs == CachedLegTo \/ CachedLegFrom

SpecLegs == InitLegs /\ [][NextLegs]_vars

----------------------------------------------------------------------------
(* GoogleRoutingClient._convert_to_timestamp (SpecClock)                   *)
(*                                                                         *)
(* A str is the sequence of its characters.  A datetime is a record of     *)
(* day (days since the Monday that starts the week of now), hour, minute   *)
(* and second; a timestamp counts the seconds since that Monday 00:00:00   *)
(* in a time zone that does not change its offset meanwhile.               *)

DigitChars == <<"0", "1", "2", "3", "4", "5", "6", "7", "8", "9">>

IsDigit(c) == \E k \in 1..10 : DigitChars[k] = c

DigitValue(c) == (CHOOSE k \in 1..10 : DigitChars[k] = c) - 1

\* departure_time.split(":")
RECURSIVE SplitColon(_)
SplitColon(s) ==
    IF \A i \in 1..Len(s) : s[i] # ":" THEN <<s>>
    ELSE LET i == CHOOSE k \in 1..Len(s) :
                      s[k] = ":" /\ \A j \in 1..(k - 1) : s[j] # ":"
         IN  <<SubSeq(s, 1, i - 1)>> \o SplitColon(SubSeq(s, i + 1, Len(s)))

\* str.strip() for blanks, as int() applies it
RECURSIVE StripBlanks(_)
StripBlanks(s) ==
    IF s = << >> THEN s
    ELSE IF s[1] = " " THEN StripBlanks(Tail(s))
    ELSE IF s[Len(s)] = " " THEN StripBlanks(SubSeq(s, 1, Len(s) - 1))
    ELSE s

\* value of a run of decimal digits
RECURSIVE DecimalValue(_)
DecimalValue(ds) ==
    IF ds = << >> THEN 0
    ELSE DecimalValue(SubSeq(ds, 1, Len(ds) - 1)) * 10
             + DigitValue(ds[Len(ds)])

ValueError == [exception |-> "ValueError"]

\* int(part): blanks around, an optional sign, then decimal digits
IntOf(part) ==
    LET t      == StripBlanks(part)
        signed == t # << >> /\ t[1] \in {"+", "-"}
        body   == IF signed THEN Tail(t) ELSE t
    IN  IF body = << >> \/ \E i \in 1..Len(body) : ~IsDigit(body[i])
        THEN ValueError
        ELSE [value |-> IF signed /\ t[1] = "-" THEN 0 - DecimalValue(body)
                        ELSE DecimalValue(body)]

\* day_of_week.lower() on the names used
LowerName(name) ==
    IF name = "Monday" THEN "monday"
    ELSE IF name = "Wednesday" THEN "wednesday"
    ELSE IF name = "SUNDAY" THEN "sunday"
    ELSE name

\* day_map: Monday=0 ... Sunday=6
DayMap ==
    [monday |-> 0, tuesday |-> 1, wednesday |-> 2, thursday |-> 3,
     friday |-> 4, saturday |-> 5, sunday |-> 6]

\* seconds from the Monday 00:00:00 of the week of now to the datetime
Timestamp(dt) ==
    dt.day * 86400 + dt.hour * 3600 + dt.minute * 60 + dt.second

\* "if target_time < now": the very instant of now counts as still ahead
TimePassedStrictly(target_time, now) == Timestamp(target_time) < Timestamp(now)

\* "if target_time <= now"
TimePassed(target_time, now) == Timestamp(target_time) <= Timestamp(now)

\* the body of _convert_to_timestamp; every exception gives None
ConvertToTimestamp(departure_time, day_of_week, now) ==
    LET time_parts == SplitColon(departure_time)
    IN  IF Len(time_parts) # 2 THEN NoneObject
        ELSE
        LET hour   == IntOf(time_parts[1])
            minute == IntOf(time_parts[2])
        IN  \* int(...) raises ValueError
            IF IsRaise(hour) \/ IsRaise(minute) THEN NoneObject
            \* day_map.get(...) is None
            ELSE IF LowerName(day_of_week) \notin DOMAIN DayMap
            THEN NoneObject
            \* now.replace(hour=..., minute=...) raises ValueError
            ELSE IF hour.value \notin 0..23 \/ minute.value \notin 0..59
            THEN NoneObject
            ELSE
            LET target_weekday == DayMap[LowerName(day_of_week)]
                target_time == [now EXCEPT !.hour = hour.value,
                                           !.minute = minute.value,
                                           !.second = 0]
                diff == target_weekday - now.day
                days_ahead ==
                    IF diff < 0 THEN diff + 7
                    ELSE IF diff = 0 /\ TimePassed(target_time, now) THEN 7
                    ELSE diff
                target_date == [now EXCEPT !.day = now.day + days_ahead]
                target_datetime == [target_date EXCEPT !.hour = hour.value,
                                                       !.minute = minute.value,
                                                       !.second = 0]
            IN  [timestamp |-> Timestamp(target_datetime)]

\* departure_time values of a destination: well formed, one-digit fields,
\* a sign, a blank, three digits, no colon, two colons, letters, an hour
\* and a minute out of range, empty
TimeStrings ==
    { <<"0", "8", ":", "3", "0">>,
      <<"2", "3", ":", "5", "9">>,
      <<"0", "0", ":", "0", "0">>,
      <<"8", ":", "5">>,
      <<"+", "8", ":", "3", "0">>,
      <<" ", "8", ":", "3", "0">>,
      <<"0", "0", "8", ":", "3", "0">>,
      <<"0", "8", "3", "0">>,
      <<"0", "8", ":", "3", "0", ":", "0", "0">>,
      <<"a", "b", ":", "c", "d">>,
      <<"2", "5", ":", "0", "0">>,
      <<"0", "8", ":", "6", "0">>,
      <<"-", "1", ":", "3", "0">>,
      << >> }

\* day_of_week values of a destination
DayNames == {"Monday", "monday", "Wednesday", "SUNDAY", "Funday", "Mon"}

\* readings of datetime.now(): the day of the week and the time of day
ClockReadings ==
    { [day |-> d, hour |-> t[1], minute |-> t[2], second |-> t[3]] :
        d \in {0, 2, 6},
        t \in { <<0, 0, 0>>, <<8, 29, 59>>, <<8, 30, 0>>, <<8, 30, 1>>,
                <<23, 59, 59>> } }

\* a call of _convert_to_timestamp(departure_time, day_of_week)
ConvertCall ==
    /\ pc = "clock"
    /\ \E departure_time \in TimeStrings, day_of_week \in DayNames :
          conversion' = [departure_time |-> departure_time,
                         day_of_week |-> day_of_week,
                         result |-> ConvertToTimestamp(departure_time,
                                                       day_of_week, clock)]
    /\ pc' = "converted"
    /\ UNCHANGED <<input_vars, destinations, origins, oi, gi, di,
                   shortest_time, best_route, best_routes_by_origin,
                   total_score, valid_routes, origin_routes, route_data,
                   origin_scores, calls, legs, member_time, cache_vars,
                   env, routing_client, demo_log, entry, received, response,
                   rendered, simple_route_data, simple_origin_scores, clock>>

InitClock ==
    /\ CacheIdle
    /\ env = NoneObject
    /\ routing_client = NoneObject
    /\ demo_log = << >>
    /\ entry = None
    /\ received = NoneObject
    /\ response = NoneObject
    /\ rendered = << >>
    /\ simple_route_data = << >>
    /\ simple_origin_scores = << >>
    /\ clock \in ClockReadings
    /\ conversion = NoneObject
    /\ pc = "clock"
    /\ demo_mode = FALSE
    /\ costing = "auto"
    /\ origins = << >>
    /\ destinations = << >>
    /\ loaded = [origins |-> << >>, destinations |-> << >>]
    /\ ScoringEntry(<< >>)

NextClock == ConvertCall

SpecClock == InitClock /\ [][NextClock]_vars

----------------------------------------------------------------------------
(* SimpleHTMLDashboard.load_and_process_data (src/src/simple_dashboard.py) *)
(* and the script that runs both loads, test_refactoring.py (SpecEntry)    *)

\* a destination with a weight and nothing else
DestShop == [name |-> "Shop", coords |-> <<16, 26>>, weight |-> 2]

\* whether load_json finds the data files; a load that follows the load
\* of main.py in the same script finds what that one found
FilesFound == IF entry = "test_refactoring" THEN {TRUE} ELSE BOOLEAN

\* what provider.geocode gives for the item; to the script that has run
\* the load of main.py before, the provider gives the coordinate again
GeocodeAnswers(item) ==
    IF entry = "test_refactoring" /\ "coords" \in DOMAIN item
    THEN { [result |-> item.coords] }
    ELSE GeocodeResponses

\* dest["coords"] = geocode(dest["name"]), [0, 0] when it raises
SimpleGeocodeItem(item, r) ==
    SetCoords(item, IF IsRaise(r) THEN SentinelCoords ELSE r.result)

\* self.routing_client.get_route(origin["coords"], dest["coords"],
\*                               costing=costing)
SimpleRequest(origin, dest, run_costing) ==
    [method |-> "get_route",
     origin |-> origin.coords,
     destination |-> dest.coords,
     costing |-> run_costing,
     departure_time |-> None,
     day_of_week |-> None]

\* what the provider gives for the request: what it gave to the same
\* request as the to-leg of the pair in the run before, else any response
RouteAnswers(origin, dest, req) ==
    IF /\ PairKey(origin, dest) \in DOMAIN legs
       /\ RouteCalls(origin, dest, costing, EmptyResult)[1] = req
    THEN { r \in RouteResponses :
             /\ LegView(r) = legs[PairKey(origin, dest)][1]
             /\ IsRaise(r) = legs[PairKey(origin, dest)][3] }
    ELSE RouteResponses

\* route_info of load_and_process_data
SimpleRouteInfo(dest, time_min) ==
    [destination |-> dest.name,
     travel_time |-> Round2(time_min),
     weight |-> Get(dest, "weight", 1),
     weighted_time |-> Round2(time_min * Get(dest, "weight", 1))]

\* the record appended to route_data
SimpleRecord(origin, dest, time_min) ==
    [origin |-> origin.name] @@ SimpleRouteInfo(dest, time_min)
        @@ [origin_coords |-> origin.coords, dest_coords |-> dest.coords]

\* list.sort(key=avg_score): the entry goes after those not above it
RECURSIVE InsertByAvgScore(_, _)
InsertByAvgScore(sorted, s) ==
    IF sorted = << >> THEN <<s>>
    ELSE IF sorted[Len(sorted)].avg_score <= s.avg_score
    THEN Append(sorted, s)
    ELSE Append(InsertByAvgScore(SubSeq(sorted, 1, Len(sorted) - 1), s),
                sorted[Len(sorted)])

\* origin_scores.sort(key=lambda x: x["avg_score"])
RECURSIVE SortByAvgScore(_)
SortByAvgScore(scores) ==
    IF scores = << >> THEN << >>
    ELSE InsertByAvgScore(SortByAvgScore(SubSeq(scores, 1, Len(scores) - 1)),
                          scores[Len(scores)])

\* locals of the engine loops that the entry points leave alone
EngineLocals ==
    <<gi, shortest_time, best_route, best_routes_by_origin, route_data,
      origin_scores, legs, member_time>>

\* load_json of the two data files; FileNotFoundError gives [], [], []
SimpleLoad ==
    /\ pc = "simple_load"
    /\ \E found \in FilesFound :
          pc' = IF found THEN "simple_geocode_dest" ELSE "simple_done"
    /\ oi' = 1 /\ di' = 1
    /\ UNCHANGED <<input_vars, destinations, origins, total_score,
                   valid_routes, origin_routes, calls, EngineLocals,
                   cache_vars, setup_vars>>

\* one destination of the geocode loop
SimpleGeocodeDestination ==
    /\ pc = "simple_geocode_dest"
    /\ \E r \in GeocodeAnswers(destinations[di]) :
          destinations' =
              [destinations EXCEPT ![di] = SimpleGeocodeItem(destinations[di], r)]
    /\ calls' = Append(calls, GeocodeCall(destinations[di]))
    /\ IF di < Len(destinations)
       THEN pc' = "simple_geocode_dest" /\ di' = di + 1
       ELSE pc' = "simple_geocode_origin" /\ di' = 1
    /\ UNCHANGED <<input_vars, origins, oi, total_score, valid_routes,
                   origin_routes, EngineLocals, cache_vars, setup_vars>>

\* one origin of the geocode loop
SimpleGeocodeOrigin ==
    /\ pc = "simple_geocode_origin"
    /\ \E r \in GeocodeAnswers(origins[oi]) :
          origins' = [origins EXCEPT ![oi] = SimpleGeocodeItem(origins[oi], r)]
    /\ calls' = Append(calls, GeocodeCall(origins[oi]))
    /\ IF oi < Len(origins)
       THEN pc' = "simple_geocode_origin" /\ oi' = oi + 1
       ELSE pc' = "simple_route" /\ oi' = 1
    /\ UNCHANGED <<input_vars, destinations, di, total_score, valid_routes,
                   origin_routes, EngineLocals, cache_vars, setup_vars>>

\* one (origin, destination) pair of the route loop: a single query
SimpleRoute ==
    /\ pc = "simple_route"
    /\ LET origin == origins[oi]
           dest   == destinations[di]
           req    == SimpleRequest(origin, dest, costing)
       IN  \E resp \in RouteAnswers(origin, dest, req) :
             LET ok       == ~IsRaise(resp) /\ Usable(resp)
                 time_min == resp.trip.summary.time
             IN  /\ calls' = Append(calls, req)
                 /\ total_score' =
                        IF ok
                        THEN total_score + time_min * Get(dest, "weight", 1)
                        ELSE total_score
                 /\ valid_routes' =
                        IF ok THEN valid_routes + 1 ELSE valid_routes
                 /\ origin_routes' =
                        IF ok
                        THEN Append(origin_routes,
                                    SimpleRouteInfo(dest, time_min))
                        ELSE origin_routes
                 /\ simple_route_data' =
                        IF ok
                        THEN Append(simple_route_data,
                                    SimpleRecord(origin, dest, time_min))
                        ELSE simple_route_data
    /\ IF di < Len(destinations)
       THEN pc' = "simple_route" /\ di' = di + 1
       ELSE pc' = "simple_totals" /\ di' = 1
    /\ UNCHANGED <<input_vars, destinations, origins, oi, EngineLocals,
                   cache_vars, env, routing_client, demo_log, entry,
                   received, response, rendered, simple_origin_scores,
                   clock, conversion>>

\* the end of an origin's loop body; after the last origin the list is
\* sorted and returned
SimpleTotals ==
    /\ pc = "simple_totals"
    /\ LET origin == origins[oi]
           scored ==
               IF valid_routes > 0
               THEN Append(simple_origin_scores,
                           [name |-> origin.name,
                            total_score |-> Round2(total_score),
                            avg_score |-> Round2Div(total_score, valid_routes),
                            valid_routes |-> valid_routes,
                            coords |-> origin.coords,
                            routes |-> origin_routes])
               ELSE simple_origin_scores
       IN  IF oi < Len(origins)
           THEN /\ simple_origin_scores' = scored
                /\ oi' = oi + 1
                /\ pc' = "simple_route"
           ELSE /\ simple_origin_scores' = SortByAvgScore(scored)
                /\ oi' = oi
                /\ pc' = "simple_done"
    /\ total_score' = 0
    /\ valid_routes' = 0
    /\ origin_routes' = << >>
    /\ UNCHANGED <<input_vars, destinations, origins, di, calls,
                   EngineLocals, cache_vars, env, routing_client, demo_log,
                   entry, received, response, rendered, simple_route_data,
                   clock, conversion>>

\* test_refactoring.py: after load_and_process_routing_data has returned,
\* test_dashboard_imports calls SimpleHTMLDashboard.load_and_process_data
TestDashboardImports ==
    /\ pc = "done"
    /\ entry = "test_refactoring"
    /\ pc' = "simple_load"
    /\ UNCHANGED <<input_vars, destinations, origins, oi, di, total_score,
                   valid_routes, origin_routes, calls, EngineLocals,
                   cache_vars, setup_vars>>

\* data files whose destinations carry no departure time and no walking
\* mode, so that the single query of a pair is its to-leg query
EntryInputs ==
    { [origins |-> <<HomeNorth>>,
       destinations |-> <<DestShop, DestGymA, DestGymB>>],
      [origins |-> <<HomeNorth, HomeSouth>>,
       destinations |-> <<DestShop, DestMarket>>] }

\* test_refactoring.py with the data geocoded, at the entry of
\* calculate_routes_and_scores
InitEntry ==
    /\ \E inp \in EntryInputs :
          /\ origins = inp.origins
          /\ destinations = inp.destinations
          /\ loaded = inp
          /\ pc = EntryPc(inp.origins, inp.destinations)
          /\ ScoringEntry(inp.origins)
    /\ demo_mode = FALSE
    /\ costing = "auto"
    /\ CacheIdle
    /\ env = NoneObject
    /\ routing_client = NoneObject
    /\ demo_log = << >>
    /\ entry = "test_refactoring"
    /\ received = NoneObject
    /\ response = NoneObject
    /\ rendered = << >>
    /\ simple_route_data = << >>
    /\ simple_origin_scores = << >>
    /\ clock = NoneObject
    /\ conversion = NoneObject

NextEntry ==
    \/ GroupRoute \/ GroupBest \/ IndividualRoute \/ OriginTotals
    \/ TestDashboardImports
    \/ SimpleLoad \/ SimpleGeocodeDestination \/ SimpleGeocodeOrigin
    \/ SimpleRoute \/ SimpleTotals

SpecEntry == InitEntry /\ [][NextEntry]_vars

----------------------------------------------------------------------------
(* The dashboard entry points: app.py's /simple, /legacy and /api/data     *)
(* handlers and SimpleHTMLDashboard.create_dashboard (SpecApp)             *)

\* entry points that load with SimpleHTMLDashboard.load_and_process_data
SimpleEntries == {"/simple", "create_dashboard"}

\* entry points that load with main.load_and_process_routing_data
MainEntries == {"/legacy", "/api/data"}

\* where the entry point starts
EntryStart(e) ==
    IF e \in SimpleEntries THEN "simple_load"
    ELSE IF e = "/legacy" THEN "load"
    ELSE "cesium_setup"

\* the test goes on to render although the list is empty
NoDataNever(scores) == FALSE

\* "if not origin_scores"
NoData(scores) == scores = << >>

\* what an entry point does once the load has come back with the scores:
\* the no-data response, or the rendering function and one of its outcomes
AfterLoad(scores, no_data, render, outcomes) ==
    /\ received' = [origin_scores |-> scores]
    /\ IF NoData(scores)
       THEN /\ response' = no_data
            /\ rendered' = rendered
       ELSE /\ rendered' = Append(rendered, render)
            /\ response' \in outcomes
    /\ pc' = "returned"

\* the variables an entry point's own steps leave alone
LoadState ==
    <<input_vars, destinations, origins, oi, gi, di, shortest_time,
      best_route, best_routes_by_origin, total_score, valid_routes,
      origin_routes, route_data, origin_scores, calls, legs, member_time,
      cache_vars, env, routing_client, demo_log, entry, simple_route_data,
      simple_origin_scores, clock, conversion>>

\* what the except clause of a handler gives
Error500 == [kind |-> "error", status |-> 500]

\* load_json at the start of load_and_process_routing_data; a missing
\* file raises FileNotFoundError out of the function
LoadRoutingData ==
    /\ pc = "load"
    /\ \E found \in BOOLEAN :
          pc' = IF found THEN "geocode_dest" ELSE "aborted"
    /\ UNCHANGED <<input_vars, destinations, origins, oi, gi, di,
                   shortest_time, best_route, best_routes_by_origin,
                   total_score, valid_routes, origin_routes, route_data,
                   origin_scores, calls, legs, member_time, cache_vars,
                   setup_vars>>

\* get_data: "if cesium_dashboard is None: ... CesiumDashboard()", whose
\* setup_routing_client may raise
CesiumSetup ==
    /\ pc = "cesium_setup"
    /\ entry = "/api/data"
    /\ \E ok \in BOOLEAN :
          IF ok
          THEN pc' = "load" /\ response' = response
          ELSE pc' = "returned" /\ response' = Error500
    /\ UNCHANGED <<LoadState, received, rendered>>

\* simple_dashboard_route after load_and_process_data has returned
SimpleDashboardRoute ==
    /\ pc = "simple_done"
    /\ entry = "/simple"
    /\ AfterLoad(simple_origin_scores,
                 [kind |-> "no_data", status |-> 400],
                 "generate_html_dashboard",
                 { [kind |-> "html", status |-> 200], Error500 })
    /\ UNCHANGED LoadState

\* create_dashboard after load_and_process_data has returned; it has no
\* try block, so an exception of the rendering or of the file leaves it
CreateDashboard ==
    /\ pc = "simple_done"
    /\ entry = "create_dashboard"
    /\ AfterLoad(simple_origin_scores,
                 [kind |-> "no_data", status |-> 0],
                 "generate_html_dashboard",
                 { [kind |-> "saved", status |-> 0],
                   [kind |-> "escaped", status |-> 0] })
    /\ UNCHANGED LoadState

\* legacy_dashboard after load_and_process_routing_data has returned or
\* raised
LegacyDashboard ==
    /\ pc \in {"done", "aborted"}
    /\ entry = "/legacy"
    /\ IF pc = "aborted"
       THEN /\ received' = [exception |-> "Exception"]
            /\ response' = Error500
            /\ rendered' = rendered
            /\ pc' = "returned"
       ELSE AfterLoad(origin_scores,
                      [kind |-> "no_data", status |-> 400],
                      "legacy_main",
                      { [kind |-> "html", status |-> 200],
                        [kind |-> "failed", status |-> 500], Error500 })
    /\ UNCHANGED LoadState

\* get_data after CesiumDashboard.load_and_process_data has returned; that
\* method turns every exception of the load into [], [], []
GetData ==
    /\ pc \in {"done", "aborted"}
    /\ entry = "/api/data"
    /\ AfterLoad(IF pc = "aborted" THEN << >> ELSE origin_scores,
                 [kind |-> "no_data", status |-> 200],
                 "create_interpolated_grid",
                 { [kind |-> "json", status |-> 200], Error500 })
    /\ UNCHANGED LoadState

\* data files of the requests: without and with coordinates
AppInputs ==
    { [origins |-> <<WithoutCoords(HomeNorth)>>,
       destinations |-> <<WithoutCoords(DestShop), WithoutCoords(DestGymA)>>],
      [origins |-> <<HomeNorth>>,
       destinations |-> <<DestShop, DestGymA>>] }

\* a request to one of the entry points
InitApp ==
    /\ \E inp \in AppInputs :
          /\ origins = inp.origins
          /\ destinations = inp.destinations
          /\ loaded = inp
          /\ ScoringEntry(inp.origins)
    /\ demo_mode \in BOOLEAN
    /\ costing \in RunCostings
    /\ CacheIdle
    /\ env = NoneObject
    /\ routing_client = NoneObject
    /\ demo_log = << >>
    /\ entry \in SimpleEntries \cup MainEntries
    /\ pc = EntryStart(entry)
    /\ received = NoneObject
    /\ response = NoneObject
    /\ rendered = << >>
    /\ simple_route_data = << >>
    /\ simple_origin_scores = << >>
    /\ clock = NoneObject
    /\ conversion = NoneObject

NextApp ==
    \/ LoadRoutingData \/ CesiumSetup
    \/ GeocodeDestination \/ GeocodeOrigin
    \/ GroupRoute \/ GroupBest \/ IndividualRoute \/ OriginTotals
    \/ SimpleLoad \/ SimpleGeocodeDestination \/ SimpleGeocodeOrigin
    \/ SimpleRoute \/ SimpleTotals
    \/ SimpleDashboardRoute \/ CreateDashboard \/ LegacyDashboard \/ GetData

SpecApp == InitApp /\ [][NextApp]_vars

----------------------------------------------------------------------------
(* Properties of the cached provider decorator (SpecCache)                 *)

\* C1: with a working store and sequential callers, the wrapped provider
\* has returned successfully at most once for each fingerprint; a repeated
\* call with identical arguments is served from the store.
C1_CacheIdempotence ==
    ~store_failed =>
        /\ \A k \in DOMAIN provider_returns : provider_returns[k] <= 1
        /\ \A k \in DOMAIN cache_store : Count(provider_returns, k) = 1

\* a second call with an already fetched fingerprint was served as a hit
C1_Witness ==
    /\ ~store_failed
    /\ "hit" \in DOMAIN last_call
    /\ last_call.hit
    /\ ~last_call.provider_called
    /\ Count(provider_returns, last_call.key) = 1

\* the latest decorator call met a store failure
StoreFailedInCall ==
    /\ "outcome" \in DOMAIN last_call
    /\ (last_call.get_failed \/ last_call.set_failed)

\* C2: when the store's get or set raises, get_route / geocode still return
\* the wrapped provider's result and no store exception reaches the caller.
C2_StoreFailurePassThrough ==
    StoreFailedInCall => last_call.outcome # StoreError

----------------------------------------------------------------------------
(* Properties of calculate_routes_and_scores (SpecScores)                  *)

Indices(s) == 1..Len(s)

\* positions in route_data of the records of an (origin, destination) pair
RecordsOfPair(origin_name, dest_name) ==
    { i \in Indices(route_data) :
        /\ route_data[i].origin = origin_name
        /\ route_data[i].destination = dest_name }

\* positions in route_data of the records of an origin and the members of
\* a group
RecordsOfGroup(origin_name, group_name) ==
    { i \in Indices(route_data) :
        /\ route_data[i].origin = origin_name
        /\ route_data[i].group = group_name
        /\ \E m \in Range(GroupMembers(destinations, group_name)) :
              route_data[i].destination = m.name }

\* both leg queries of the pair returned a result with a usable time
BothLegsUsable(key) ==
    key \in DOMAIN legs /\ legs[key][1] # NoLeg /\ legs[key][2] # NoLeg

\* C3: the origin_scores list returned by calculate_routes_and_scores is
\* ordered ascending by avg_score.
C3_RankedAscending ==
    pc = "done" =>
        \A i, j \in Indices(origin_scores) :
            i < j => origin_scores[i].avg_score <= origin_scores[j].avg_score

\* C4: for every OriginScore, valid_routes is the number of records in its
\* routes list, total_score is the sum of their weighted times and avg_score
\* is total_score / valid_routes.
C4_ScoreTotals ==
    \A i \in Indices(origin_scores) :
        LET s == origin_scores[i]
        IN  /\ s.valid_routes = Len(s.routes)
            /\ s.total_score =
                   SumSeq([k \in Indices(s.routes) |-> s.routes[k].weighted_time])
            /\ s.avg_score = Round2Div(s.total_score, s.valid_routes)

\* C5: for every destination without a group and every origin, route_data
\* holds exactly one record of the pair when both leg queries returned a
\* usable time, and none otherwise.
C5_OneRecordPerIndividualPair ==
    pc = "done" =>
        \A i \in Indices(origins) :
            \A k \in Indices(IndividualDestinations(destinations)) :
                LET o == origins[i]
                    d == IndividualDestinations(destinations)[k]
                IN  Cardinality(RecordsOfPair(o.name, d.name)) =
                        IF BothLegsUsable(PairKey(o, d)) THEN 1 ELSE 0

\* members of a group whose round trip was computed for the origin
ValidMembers(origin, group_name) ==
    { m \in Range(GroupMembers(destinations, group_name)) :
        PairKey(origin, m) \in DOMAIN member_time }

\* C6: for every origin and group, route_data holds at most one record of
\* that origin and group; its round-trip time is that of a member and is
\* <= the round-trip time of every member whose legs succeeded; a group
\* with no valid member contributes no record.
C6_GroupMinimum ==
    \A i \in Indices(origins) :
        \A g \in Range(GroupNames(destinations)) :
            LET o    == origins[i]
                recs == RecordsOfGroup(o.name, g)
            IN  /\ Cardinality(recs) <= 1
                /\ ValidMembers(o, g) = {} => recs = {}
                /\ \A r \in recs :
                     /\ \E m \in ValidMembers(o, g) :
                          /\ route_data[r].destination = m.name
                          /\ route_data[r].travel_time =
                                 Round2(member_time[PairKey(o, m)])
                     /\ \A m \in ValidMembers(o, g) :
                          route_data[r].travel_time <=
                              Round2(member_time[PairKey(o, m)])

\* the winner of a group is not its first member, which had a longer trip
C6_Witness ==
    /\ pc = "done"
    /\ \E i \in Indices(route_data) :
         /\ route_data[i].group = "gym"
         /\ route_data[i].destination = "GymB"
         /\ <<route_data[i].origin, "GymA">> \in DOMAIN member_time
         /\ member_time[<<route_data[i].origin, "GymA">>]
                > member_time[<<route_data[i].origin, "GymB">>]

\* records produced by the group phase
GroupWinners ==
    { i \in Indices(route_data) : "is_shortest_in_group" \in DOMAIN route_data[i] }

\* C7: a group's winning record carries the weight of the first member of
\* the group in input order (1.0 when it has none), and its weighted time
\* is the winner's round-trip time times that weight (to 2 decimals).
C7_GroupWeightFromFirst ==
    \A i \in GroupWinners :
        LET r     == route_data[i]
            first == GroupMembers(destinations, r.group)[1]
            w     == IF "weight" \in DOMAIN first THEN first.weight ELSE 1
        IN  /\ r.weight = w
            /\ r.weighted_time =
                   Round2(member_time[<<r.origin, r.destination>>] * w)

\* GymB (weight 3) wins its group while the first member GymA (no weight)
\* had no valid route: the record carries the default weight
C7_Witness ==
    \E i \in GroupWinners :
        /\ route_data[i].destination = "GymB"
        /\ route_data[i].weight = 1
        /\ GroupMembers(destinations, "gym")[1].name = "GymA"
        /\ <<route_data[i].origin, "GymA">> \notin DOMAIN member_time

\* the time a leg contributes under per-leg traffic substitution
LegTime(view) ==
    IF "traffic_time" \in DOMAIN view THEN view.traffic_time ELSE view.time

\* C8: the round-trip time is the sum over the two legs of the leg's
\* traffic time when it has one and of its base time otherwise.
C8_PerLegTraffic ==
    \A key \in DOMAIN member_time :
        member_time[key] = LegTime(legs[key][1]) + LegTime(legs[key][2])

\* C9: when traffic data is present, the record's traffic_time is the sum
\* of the two legs' traffic times and its normal_time the sum of their base
\* times, for group winners as for individual records.
C9_TrafficFieldsAreSums ==
    \A i \in Indices(route_data) :
        LET r   == route_data[i]
            key == <<r.origin, r.destination>>
            to  == legs[key][1]
            fr  == legs[key][2]
        IN  ("traffic_time" \in DOMAIN to /\ "traffic_time" \in DOMAIN fr) =>
                /\ "traffic_time" \in DOMAIN r
                /\ r.traffic_time =
                       Round2(to.traffic_time) + Round2(fr.traffic_time)
                /\ r.normal_time = Round2(to.time) + Round2(fr.time)

----------------------------------------------------------------------------
(* Properties of load_and_process_routing_data (SpecRun)                   *)

\* C10: a geocode failure never aborts the run, in any mode; once the
\* geocode phase is over every item has a coordinate.
C10_GeocodeFailureNotFatal ==
    /\ pc # "aborted"
    /\ pc \notin {"geocode_dest", "geocode_origin"} =>
           /\ \A i \in Indices(destinations) :
                  "coords" \in DOMAIN destinations[i]
           /\ \A i \in Indices(origins) : "coords" \in DOMAIN origins[i]

\* entries of the loaded files that already carry a coordinate
LoadedWithCoords ==
    { it \in Range(loaded.destinations) \cup Range(loaded.origins) :
        "coords" \in DOMAIN it }

\* positions in calls of the geocode requests for a name
GeocodeCallsFor(name) ==
    { i \in Indices(calls) :
        calls[i].method = "geocode" /\ calls[i].address = name }

\* the item of that name as the run holds it now
CurrentItem(name) ==
    CHOOSE it \in Range(destinations) \cup Range(origins) : it.name = name

\* C11: provider.geocode is called only for items lacking a coordinate; an
\* item loaded with coords is never geocoded and keeps its coords, and no
\* item is geocoded twice in a run.
C11_GeocodeOnlyMissing ==
    /\ \A it \in LoadedWithCoords :
          /\ GeocodeCallsFor(it.name) = {}
          /\ CurrentItem(it.name).coords = it.coords
    /\ \A it \in Range(loaded.destinations) \cup Range(loaded.origins) :
          Cardinality(GeocodeCallsFor(it.name)) <= 1

----------------------------------------------------------------------------
(* Failure handling and output of calculate_routes_and_scores (SpecScores) *)

\* a leg query of the pair raised, or gave no result, summary or time
FailedPair(key) ==
    key \in DOMAIN legs /\ (legs[key][1] = NoLeg \/ legs[key][2] = NoLeg)

\* C12: calculate_routes_and_scores returns normally whatever the provider
\* does: it never stops before the end, a pair with a failed leg query is
\* dropped (no record, not counted), and at the end every pair of every
\* origin has been queried.
C12_FailuresDropOnlyThePair ==
    /\ pc # "aborted"
    /\ pc # "done" => ENABLED NextScores
    /\ \A key \in DOMAIN legs :
          FailedPair(key) =>
              /\ RecordsOfPair(key[1], key[2]) = {}
              /\ key \notin DOMAIN member_time
    /\ pc = "done" =>
          \A i \in Indices(origins) : \A k \in Indices(destinations) :
              PairKey(origins[i], destinations[k]) \in DOMAIN legs

\* the run ended, a pair failed and a later pair of the same origin has
\* its record
C12_Witness ==
    /\ pc = "done"
    /\ \E key \in DOMAIN legs :
          /\ FailedPair(key)
          /\ key[2] = destinations[1].name
          /\ \E i \in Indices(route_data) :
                /\ route_data[i].origin = key[1]
                /\ route_data[i].destination # key[2]

\* a leg of the origin is counted: an individual pair with a round trip,
\* or a group with a valid member
Counted(origin) ==
    \/ \E d \in Range(IndividualDestinations(destinations)) :
          PairKey(origin, d) \in DOMAIN member_time
    \/ \E g \in Range(GroupNames(destinations)) :
          ValidMembers(origin, g) # {}

ScoresOf(origin_name) ==
    { i \in Indices(origin_scores) : origin_scores[i].name = origin_name }

\* C13: an origin with no counted leg has no entry in origin_scores and no
\* record in route_data; an origin with a counted leg has exactly one entry.
C13_UnscoredOriginsOmitted ==
    pc = "done" =>
        \A i \in Indices(origins) :
            LET o == origins[i]
            IN  IF Counted(o)
                THEN Cardinality(ScoresOf(o.name)) = 1
                ELSE /\ ScoresOf(o.name) = {}
                     /\ \A r \in Indices(route_data) :
                           route_data[r].origin # o.name

\* one origin is left out of the output while another is scored
C13_Witness ==
    /\ pc = "done"
    /\ \E i, j \in Indices(origins) :
          /\ ~Counted(origins[i])
          /\ ScoresOf(origins[i].name) = {}
          /\ Counted(origins[j])
          /\ origin_scores[1].name = origins[j].name

\* the routing profile a transport mode stands for
Profile(transport_mode) ==
    IF transport_mode = "walking" THEN "pedestrian" ELSE transport_mode

\* C14: both get_route calls of a destination that specifies a transport
\* profile are made with that profile; the run-level costing is used only
\* for destinations that specify none.
C14_DestinationProfile ==
    \A i \in Indices(calls) :
        calls[i].method = "get_route" =>
            \A d \in Range(destinations) :
                d.coords = calls[i].destination =>
                    calls[i].costing =
                        IF "transport_mode" \in DOMAIN d
                        THEN Profile(d.transport_mode)
                        ELSE costing

----------------------------------------------------------------------------
(* Properties of the fingerprint (SpecKey, SpecCache)                      *)

\* C15: _generate_key gives one key for the same provider, method,
\* positional arguments and keyword values in whatever order the keywords
\* are written, and get_route gives one key for a request whether its
\* optional arguments are keywords in any order, positional, or left at a
\* default equal to the value.
C15_KeyOrderIndependent ==
    \A i, j \in Indices(key_log) :
        LET a == key_log[i]
            b == key_log[j]
        IN  /\ ( /\ a.via = "_generate_key" /\ b.via = "_generate_key"
                 /\ a.client_name = b.client_name /\ a.method = b.method
                 /\ a.args = b.args /\ a.kwargs = b.kwargs )
               => a.key = b.key
            /\ ( /\ a.via = "get_route" /\ b.via = "get_route"
                 /\ a.client_name = b.client_name
                 /\ a.request = b.request )
               => a.key = b.key

\* the same keywords written in two different orders gave one key
C15_Witness ==
    /\ Len(key_log) = 2
    /\ key_log[1].via = "_generate_key" /\ key_log[2].via = "_generate_key"
    /\ key_log[1].client_name = key_log[2].client_name
    /\ key_log[1].kwargs = key_log[2].kwargs
    /\ key_log[1].written # key_log[2].written
    /\ key_log[1].key = key_log[2].key

\* the request a stored entry or a call is about, without the provider
RequestOf(m) == [k \in DOMAIN m \ {"client_name"} |-> m[k]]

\* C16: requests that differ in the wrapped provider's name or in the
\* method never share a key: the entry under the key of a call was written
\* for the same provider and method, so a hit never returns what another
\* provider wrote to the shared store.
C16_ProviderAndMethodInKey ==
    "key" \in DOMAIN last_call =>
        \A k \in DOMAIN cache_store :
            k = last_call.key =>
                /\ cache_store[k].metadata.client_name = last_call.client_name
                /\ cache_store[k].metadata.method = last_call.method

\* the store holds the same request under both providers, and the second
\* provider's call was a miss although the first one's entry was there
C16_Witness ==
    /\ "key" \in DOMAIN last_call
    /\ last_call.provider_called
    /\ last_call.key \in DOMAIN cache_store
    /\ \E k \in DOMAIN cache_store :
          /\ k # last_call.key
          /\ cache_store[k].metadata.client_name # last_call.client_name
          /\ RequestOf(cache_store[k].metadata) =
                 RequestOf(cache_store[last_call.key].metadata)

----------------------------------------------------------------------------
(* Miss and hit of the decorator (SpecCache)                               *)

\* C17: with a working store, a miss calls the wrapped provider, writes the
\* result under the key with metadata recording the request and returns
\* it; a later hit for the key returns a value equal to the one the miss
\* returned.
C17_MissThenHit ==
    ( /\ "key" \in DOMAIN last_call
      /\ ~last_call.get_failed /\ ~last_call.set_failed ) =>
        /\ ( last_call.provider_called
             /\ ~IsRaise(last_call.provider_result) ) =>
               /\ last_call.outcome =
                      [returned |-> last_call.provider_result]
               /\ last_call.key \in DOMAIN cache_store
               /\ cache_store[last_call.key].metadata.method =
                      last_call.method
               /\ cache_store[last_call.key].metadata.client_name =
                      last_call.client_name
        /\ last_call.hit =>
               /\ ~last_call.provider_called
               /\ last_call.outcome.returned =
                      returned_on_miss[last_call.key]

----------------------------------------------------------------------------
(* Concurrent callers (SpecRace)                                           *)

RaceOver == \A c \in CallerNames : callers[c].pc \in {"returned", "raised"}

\* C18: when two callers issue the same request concurrently on an empty
\* store, both may call the provider; afterwards the store holds one entry
\* for the fingerprint, its value is the one written last, a caller whose
\* provider call returned has a result, and no caller has an error of the
\* store.
C18_RaceLastWriteWins ==
    /\ \A c \in CallerNames :
          /\ callers[c].outcome # StoreError
          /\ callers[c].pc = "raised" => callers[c].outcome = Raised
    /\ RaceOver =>
          /\ \A c \in CallerNames :
                \/ /\ callers[c].pc = "returned"
                   /\ "returned" \in DOMAIN callers[c].outcome
                \/ callers[c].pc = "raised"
          /\ writes # << >> =>
                /\ DOMAIN cache_store = { RaceKey(c) : c \in CallerNames }
                /\ Cardinality(DOMAIN cache_store) = 1
                /\ \A c \in CallerNames :
                      cache_store[RaceKey(c)].value =
                          JsonDumps(writes[Len(writes)])
          /\ writes = << >> => cache_store = << >>

\* both callers missed, both called the provider with different results,
\* both wrote and both returned
C18_Witness ==
    /\ RaceOver
    /\ Len(writes) = 2
    /\ writes[1] # writes[2]
    /\ \A c \in CallerNames : callers[c].pc = "returned"
    /\ callers["a"].outcome # callers["b"].outcome

----------------------------------------------------------------------------
(* The demo provider (SpecDemo)                                            *)

\* C19: two DemoRoutingClient.get_route calls with the same origin,
\* destination, profile, departure time and day of week return the same
\* time, distance and traffic_time.
C19_DemoDeterministic ==
    \A i, j \in Indices(demo_log) :
        demo_log[i].request = demo_log[j].request =>
            LET a == demo_log[i].result.trip.summary
                b == demo_log[j].result.trip.summary
            IN  /\ a.time = b.time
                /\ a.distance = b.distance
                /\ a.traffic_time = b.traffic_time

----------------------------------------------------------------------------
(* Start-up (SpecSetup)                                                    *)

\* C20: setup_routing_client raises only when USE_GOOGLE is set and no
\* GOOGLE_API_KEY is configured; in DEMO_MODE it returns the demo provider
\* and does not try to build a cache; when the store is unreachable it
\* returns the bare provider.
C20_SetupFatalOnlyForConfig ==
    pc \in {"returned", "raised"} =>
        /\ pc = "raised" => (Flag(env.USE_GOOGLE) /\ NoApiKey(env))
        /\ Flag(env.DEMO_MODE) =>
              /\ pc = "returned"
              /\ routing_client = Returned("Demo (Mock Data)", FALSE, FALSE)
        /\ ( /\ ~Flag(env.DEMO_MODE)
             /\ ~(Flag(env.USE_GOOGLE) /\ NoApiKey(env))
             /\ ~env.mongo_reachable ) =>
              /\ pc = "returned"
              /\ ~routing_client.cached

----------------------------------------------------------------------------
(* Ties, unusable legs and the number of route queries (SpecScores)        *)

\* position of the destination of that name among the members of a group
MemberIndex(members, dest_name) ==
    CHOOSE k \in Indices(members) : members[k].name = dest_name

\* C23: when members of a group tie for the minimum round-trip time, the
\* record kept for the group is the member that comes first in the
\* destinations input: every valid member before the winner took strictly
\* longer than the winner.
C23_TieKeepsFirstMember ==
    \A i \in Indices(origins) :
        \A g \in Range(GroupNames(destinations)) :
            LET o       == origins[i]
                members == GroupMembers(destinations, g)
            IN  \A r \in RecordsOfGroup(o.name, g) :
                    LET w == MemberIndex(members, route_data[r].destination)
                    IN  \A k \in 1..(w - 1) :
                            PairKey(o, members[k]) \in DOMAIN member_time =>
                                member_time[PairKey(o, members[k])] >
                                    member_time[PairKey(o, members[w])]

\* two members of a group took equally long and the first one is recorded
C23_Witness ==
    /\ pc = "done"
    /\ \E i \in Indices(origins) :
         \E g \in Range(GroupNames(destinations)) :
            LET o       == origins[i]
                members == GroupMembers(destinations, g)
            IN  /\ Len(members) >= 2
                /\ PairKey(o, members[1]) \in DOMAIN member_time
                /\ PairKey(o, members[2]) \in DOMAIN member_time
                /\ member_time[PairKey(o, members[1])] =
                       member_time[PairKey(o, members[2])]
                /\ \E r \in RecordsOfGroup(o.name, g) :
                       route_data[r].destination = members[1].name

\* pairs whose leg queries are made in the step
NewPairs == { key \in DOMAIN legs' : key \notin DOMAIN legs }

\* the step leaves the running totals and the records as they were
TotalsUnchanged ==
    /\ total_score' = total_score
    /\ valid_routes' = valid_routes
    /\ origin_routes' = origin_routes
    /\ route_data' = route_data
    /\ shortest_time' = shortest_time
    /\ best_route' = best_route

\* C24: a leg with no usable time (empty result, no trip or summary, a
\* summary without a time) makes its pair a route failure: the step that
\* queries the pair leaves valid_routes, total_score and the records
\* unchanged, and every round trip and every record comes from a pair
\* whose two legs both carried a time, never from a leg taken as zero.
C24_UnusableLegIsFailure ==
    /\ [](/\ \A key \in DOMAIN member_time : BothLegsUsable(key)
          /\ \A r \in Indices(route_data) :
                BothLegsUsable(<<route_data[r].origin,
                                 route_data[r].destination>>))
    /\ [][\A key \in NewPairs :
             (legs'[key][1] = NoLeg \/ legs'[key][2] = NoLeg) =>
                 TotalsUnchanged]_vars

\* a pair whose to-leg carried a time and whose from-leg did not has no
\* record, while the same origin is scored on another pair
C24_Witness ==
    /\ pc = "done"
    /\ \E key \in DOMAIN legs :
          /\ legs[key][1] # NoLeg
          /\ legs[key][2] = NoLeg
          /\ ~legs[key][3]
          /\ RecordsOfPair(key[1], key[2]) = {}
          /\ \E s \in Indices(origin_scores) :
                /\ origin_scores[s].name = key[1]
                /\ origin_scores[s].valid_routes >= 1

\* positions in calls of the get_route requests of a pair
RouteCallsOfPair(origin, dest) ==
    { i \in Indices(calls) :
        /\ calls[i].method = "get_route"
        /\ calls[i].origin = origin.coords
        /\ calls[i].destination = dest.coords }

\* the destination is a member of some group
InGroupPartition(dest) ==
    \E g \in Range(GroupNames(destinations)) :
        dest \in Range(GroupMembers(destinations, g))

\* C30: a run issues, for each (origin, destination) pair, two get_route
\* calls when the first returned and one when the first raised; every
\* destination is in exactly one of the grouped and individual partitions,
\* so a run issues at most 2 * |origins| * |destinations| route calls.
C30_AtMostTwoCallsPerPair ==
    /\ \A i \in Indices(origins) : \A k \in Indices(destinations) :
          LET o == origins[i]
              d == destinations[k]
              n == Cardinality(RouteCallsOfPair(o, d))
          IN  IF PairKey(o, d) \in DOMAIN legs
              THEN n = IF legs[PairKey(o, d)][3] THEN 1 ELSE 2
              ELSE n = 0
    /\ \A k \in Indices(destinations) :
          InGroupPartition(destinations[k]) #
              (destinations[k] \in Range(IndividualDestinations(destinations)))
    /\ Len(calls) <= 2 * Len(origins) * Len(destinations)

\* a run ended in which one pair was queried once, its first query having
\* raised, and another pair twice
C30_Witness ==
    /\ pc = "done"
    /\ \E k1, k2 \in DOMAIN legs :
          /\ legs[k1][3]
          /\ ~legs[k2][3]
    /\ Len(calls) < 2 * Len(origins) * Len(destinations)

----------------------------------------------------------------------------
(* Order of the provider calls of a run (SpecRun)                          *)

\* names of the loaded destinations / origins
DestinationNames == { d.name : d \in Range(loaded.destinations) }

LoadedOriginNames == { o.name : o \in Range(loaded.origins) }

\* C25: a run goes Loaded -> Geocoded -> Scored: in the sequence of
\* provider calls every geocode call precedes every get_route call, the
\* geocode calls of destinations precede those of origins, no get_route
\* call is made during the geocode phase, and once a get_route call is
\* made every destination and origin carries a coordinate.
C25_GeocodeBeforeRoutes ==
    /\ \A i, j \in Indices(calls) :
          (i < j /\ calls[i].method = "get_route") =>
              calls[j].method # "geocode"
    /\ \A i, j \in Indices(calls) :
          ( /\ i < j
            /\ calls[i].method = "geocode"
            /\ calls[j].method = "geocode"
            /\ calls[i].address \in LoadedOriginNames ) =>
              calls[j].address \notin DestinationNames
    /\ pc \in {"geocode_dest", "geocode_origin"} =>
          \A i \in Indices(calls) : calls[i].method = "geocode"
    /\ (\E i \in Indices(calls) : calls[i].method = "get_route") =>
          /\ \A k \in Indices(destinations) :
                "coords" \in DOMAIN destinations[k]
          /\ \A k \in Indices(origins) : "coords" \in DOMAIN origins[k]

\* a run ended that geocoded a destination and an origin and then queried
\* routes
C25_Witness ==
    /\ pc = "done"
    /\ \E i, j, k \in Indices(calls) :
          /\ i < j /\ j < k
          /\ calls[i].method = "geocode"
          /\ calls[i].address \in DestinationNames
          /\ calls[j].method = "geocode"
          /\ calls[j].address \in LoadedOriginNames
          /\ calls[k].method = "get_route"

----------------------------------------------------------------------------
(* Provider failures and empty results in the decorator (SpecCache)        *)

\* the latest decorator call missed and the wrapped provider raised
RaisedInCall ==
    /\ "outcome" \in DOMAIN last_call
    /\ last_call.provider_called
    /\ IsRaise(last_call.provider_result)

\* the step is a decorator call with the fingerprint k whose lookup worked
CallOn(k) ==
    /\ call_count' = call_count + 1
    /\ last_call'.key = k
    /\ ~last_call'.get_failed

\* C28: when the wrapped provider raises during a cache miss the exception
\* reaches the caller and the store is left as it was (no entry for the
\* fingerprint), so the next call with that fingerprint is a miss again
\* and invokes the provider again.
C28_ProviderRaiseLeavesStore ==
    /\ [](RaisedInCall =>
            /\ last_call.outcome = last_call.provider_result
            /\ last_call.key \notin DOMAIN cache_store)
    /\ [][RaisedInCall' => cache_store' = cache_store]_vars
    /\ [][(RaisedInCall /\ CallOn(last_call.key)) =>
             (~last_call'.hit /\ last_call'.provider_called)]_vars

\* the provider raised on a miss while the store held an entry of another
\* request, and the store has no entry for the failed one
C28_Witness ==
    /\ RaisedInCall
    /\ call_count >= 2
    /\ cache_store # << >>
    /\ last_call.key \notin DOMAIN cache_store
    /\ last_call.outcome = Raised

\* fingerprints stored with the empty result
EmptyEntries ==
    { k \in DOMAIN cache_store : CacheGet(cache_store, k) = EmptyResult }

\* C29: a provider response that carries no route (the empty result) is
\* written to the cache like any other; every later call with the same
\* fingerprint is a hit that returns the empty result without invoking the
\* provider, and no entry is ever removed or changed by the decorator.
C29_EmptyResultIsCached ==
    /\ []( ( /\ "outcome" \in DOMAIN last_call
             /\ last_call.provider_called
             /\ last_call.provider_result = EmptyResult
             /\ ~last_call.set_failed ) =>
               last_call.key \in EmptyEntries )
    /\ [][\A k \in EmptyEntries :
             CallOn(k) =>
                 /\ last_call'.hit
                 /\ ~last_call'.provider_called
                 /\ last_call'.outcome = [returned |-> EmptyResult]]_vars
    /\ [][\A k \in DOMAIN cache_store :
             /\ k \in DOMAIN cache_store'
             /\ cache_store'[k] = cache_store[k]]_vars

\* a call was served from the store with the empty result
C29_Witness ==
    /\ "outcome" \in DOMAIN last_call
    /\ last_call.hit
    /\ ~last_call.provider_called
    /\ last_call.outcome = [returned |-> EmptyResult]
    /\ Count(provider_returns, last_call.key) = 1

----------------------------------------------------------------------------
(* The two leg requests of a pair (SpecLegs)                               *)

\* the destination's two departure times are equal or both absent
SameDeparture(dest) ==
    Get(dest, "departure_time_to", None) =
        Get(dest, "departure_time_from", None)

\* the step is the from-leg query of the current pair
FromLegStep == pc = "leg_from" /\ pc' # "leg_from"

\* C27: the two leg requests of a pair have the same origin coordinates,
\* destination coordinates, profile and day, and differ only in the
\* departure time (to / from); so for a destination whose departure times
\* are equal or both absent the from-leg request has the fingerprint of the
\* to-leg request, is served from the store, and the wrapped provider is
\* invoked at most once for the pair.
C27_LegsDifferOnlyInDeparture ==
    /\ [][FromLegStep =>
            LET dest == destinations[di]
                a    == calls'[Len(calls') - 1]
                b    == calls'[Len(calls')]
            IN  /\ a.method = "get_route" /\ b.method = "get_route"
                /\ a.origin = origins[oi].coords
                /\ b.origin = a.origin
                /\ a.destination = dest.coords
                /\ b.destination = a.destination
                /\ b.costing = a.costing
                /\ b.day_of_week = a.day_of_week
                /\ a.departure_time = Get(dest, "departure_time_to", None)
                /\ b.departure_time = Get(dest, "departure_time_from", None)
                /\ SameDeparture(dest) =>
                      /\ last_call'.key = last_call.key
                      /\ last_call'.hit
                      /\ ~last_call'.provider_called
                      /\ provider_returns' = provider_returns]_vars
    /\ [](\A k \in Indices(destinations) :
             SameDeparture(destinations[k]) =>
                 Count(provider_returns,
                       LegKey(LegRequests(origins[oi], destinations[k],
                                          costing)[1])) <= 1)

\* the from-leg of a destination with equal or absent departure times was
\* served from the store
C27_Witness ==
    /\ pc = "done"
    /\ "outcome" \in DOMAIN last_call
    /\ last_call.hit
    /\ ~last_call.provider_called
    /\ SameDeparture(destinations[di])
    /\ PairKey(origins[oi], destinations[di]) \in DOMAIN legs
    /\ Count(provider_returns, last_call.key) = 1

----------------------------------------------------------------------------
(* Departure timestamps (SpecClock)                                        *)

\* the time is written HH:MM: two digits, a colon, two digits, naming an
\* hour of the day and a minute of the hour
IsHHMM(s) ==
    /\ Len(s) = 5
    /\ s[3] = ":"
    /\ \A i \in {1, 2, 4, 5} : IsDigit(s[i])
    /\ DigitValue(s[1]) * 10 + DigitValue(s[2]) <= 23
    /\ DigitValue(s[4]) * 10 + DigitValue(s[5]) <= 59

\* the day name is one of the seven, in any case of letters
KnownDay(name) == LowerName(name) \in DOMAIN DayMap

\* the result is a timestamp strictly after the clock reading and at most
\* 7 days after it, on the weekday and at the hour and minute given
NextOccurrence(result, weekday, hour, minute) ==
    /\ "timestamp" \in DOMAIN result
    /\ LET ts == result.timestamp
       IN  /\ ts > Timestamp(clock)
           /\ ts - Timestamp(clock) <= 7 * 86400
           /\ (ts \div 86400) % 7 = weekday
           /\ (ts % 86400) \div 3600 = hour
           /\ (ts % 3600) \div 60 = minute
           /\ ts % 60 = 0

\* C26 (as claimed): _convert_to_timestamp returns None for a time that is
\* not HH:MM or for an unknown day name, and otherwise the next occurrence
\* of that day and time: strictly later than now, at most 7 days after
\* now, on the requested weekday at the requested hour and minute.
C26_NextOccurrence ==
    conversion # NoneObject =>
        LET t == conversion.departure_time
            d == conversion.day_of_week
        IN  IF ~IsHHMM(t) \/ ~KnownDay(d)
            THEN conversion.result = NoneObject
            ELSE NextOccurrence(conversion.result, DayMap[LowerName(d)],
                                DigitValue(t[1]) * 10 + DigitValue(t[2]),
                                DigitValue(t[4]) * 10 + DigitValue(t[5]))

\* the decimal numeral of a number below 100
Numeral(n) ==
    IF n < 10 THEN <<DigitChars[n + 1]>>
    ELSE <<DigitChars[(n \div 10) + 1], DigitChars[(n % 10) + 1]>>

\* the spellings of a number that int() reads: a blank or none in front,
\* a plus sign or none, leading zeros or none, the numeral
Spellings(n) ==
    { blank \o sign \o zeros \o Numeral(n) :
        blank \in {<< >>, <<" ">>},
        sign  \in {<< >>, <<"+">>},
        zeros \in {<< >>, <<"0">>, <<"0", "0">>} }

\* the numbers below a limit that the field spells
FieldValues(part, limit) == { n \in 0..limit : part \in Spellings(n) }

\* the (hour, minute) pairs the time spells: one integer spelling on each
\* side of a single colon, an hour of the day and a minute of the hour
Readings(s) ==
    UNION { FieldValues(SubSeq(s, 1, k - 1), 23)
                \X FieldValues(SubSeq(s, k + 1, Len(s)), 59) :
            k \in { j \in 1..Len(s) : s[j] = ":" } }

\* C26 (amended): _convert_to_timestamp returns None when the time does
\* not spell an hour (0..23) and a minute (0..59) as two integers around
\* one colon, or when the day name is unknown; otherwise it returns the
\* next occurrence of that day and time: strictly later than now, at most
\* 7 days after now, on the requested weekday at the requested hour and
\* minute.  One-digit, signed, blank-padded and zero-padded fields such as
\* "8:5" are read as the numbers they spell.
C26_NextOccurrenceOfReadTime ==
    conversion # NoneObject =>
        LET t == conversion.departure_time
            d == conversion.day_of_week
        IN  IF Readings(t) = {} \/ ~KnownDay(d)
            THEN conversion.result = NoneObject
            ELSE \A hm \in Readings(t) :
                    NextOccurrence(conversion.result, DayMap[LowerName(d)],
                                   hm[1], hm[2])

\* "8:5" on a Monday at 08:30:00 for Monday: the time has passed today and
\* the result is 08:05 of the next Monday
C26_Witness ==
    /\ conversion # NoneObject
    /\ conversion.departure_time = <<"8", ":", "5">>
    /\ conversion.day_of_week = "Monday"
    /\ clock = [day |-> 0, hour |-> 8, minute |-> 30, second |-> 0]
    /\ "timestamp" \in DOMAIN conversion.result
    /\ conversion.result.timestamp = 7 * 86400 + 8 * 3600 + 5 * 60

----------------------------------------------------------------------------
(* One aggregation for all entry points (SpecEntry)                        *)

SimpleScoresOf(origin_name) ==
    { i \in Indices(simple_origin_scores) :
        simple_origin_scores[i].name = origin_name }

\* the (origin, destination) pairs counted in a list of records
CountedPairs(records) ==
    { <<records[i].origin, records[i].destination>> : i \in Indices(records) }

\* C22: for the same destinations, origins and provider responses,
\* SimpleHTMLDashboard.load_and_process_data gives the same per-origin
\* total_score and valid_routes and the same set of counted (origin,
\* destination) records as main.load_and_process_routing_data: round-trip
\* times, and only the cheapest member of each group counted.
C22_OneAggregation ==
    (pc = "simple_done" /\ entry = "test_refactoring") =>
        /\ \A i \in Indices(origins) :
              LET o == origins[i].name
              IN  /\ (ScoresOf(o) = {}) <=> (SimpleScoresOf(o) = {})
                  /\ \A m \in ScoresOf(o) : \A s \in SimpleScoresOf(o) :
                        /\ simple_origin_scores[s].total_score =
                               origin_scores[m].total_score
                        /\ simple_origin_scores[s].valid_routes =
                               origin_scores[m].valid_routes
        /\ CountedPairs(simple_route_data) = CountedPairs(route_data)

----------------------------------------------------------------------------
(* The no-data response of the dashboard entry points (SpecApp)            *)

\* the entry point has returned after its load gave an empty origin_scores
ReturnedFromEmptyLoad ==
    /\ pc = "returned"
    /\ "origin_scores" \in DOMAIN received
    /\ received.origin_scores = << >>

\* C21: when the load gives an empty origin_scores list, the entry point
\* (/simple, /legacy, /api/data of app.py, create_dashboard of
\* SimpleHTMLDashboard) gives its no-data response, calls no rendering
\* function, and lets no exception escape.
C21_EmptyScoresGiveNoData ==
    ReturnedFromEmptyLoad =>
        /\ response # NoneObject
        /\ response.kind = "no_data"
        /\ response.kind # "escaped"
        /\ response.status =
               (IF entry \in {"/simple", "/legacy"} THEN 400
                ELSE IF entry = "/api/data" THEN 200 ELSE 0)
        /\ rendered = << >>

\* /simple answers 400 after a load that asked the provider for the routes
\* and got no usable one
C21_Witness ==
    /\ ReturnedFromEmptyLoad
    /\ entry = "/simple"
    /\ \E i \in Indices(calls) : calls[i].method = "get_route"
    /\ response = [kind |-> "no_data", status |-> 400]
    /\ rendered = << >>

============================================================================
